---- MODULE Spec2Model ----
(***************************************************************************)
(* A model of the candidate-matching engine of TalentMatch-NLP             *)
(* (src/vector.py, class VectorMatcher): the text handed to the embedding  *)
(* model, the FAISS flat L2 index, the distance-to-percentage score, the   *)
(* missing-skill analysis and the build / update / remove / save / load    *)
(* operations on one matcher instance.                                     *)
(*                                                                         *)
(* A text is a sequence of characters, each character a one-character      *)
(* string; a character outside ASCII is named by its code point            *)
(* ("U+0131").  Percentages are integers counted in hundredths of a        *)
(* percent where the code rounds to two decimals, and exact fractions      *)
(* 100/(1+distance) where it does not.                                     *)
(***************************************************************************)
EXTENDS Integers, Sequences, FiniteSets, TLC

VARIABLES index, candidates, disk, everBuilt, hashSeed, last,
          sq_query, sq_skills, sq_result, sc_distance, sc_result,
          nz_candidate, nz_text, nz_fallback,
          sn_raw, sn_added, sn_searched,
          ex_pct, ex_missing, ex_candidate, ex_result,
          other,
          bt, qt,
          made,
          cq_query, cq_result,
          rk_hits, rk_min_score, rk_result,
          db_cvs, db_matches, db_jobs, db_inserted, delivered, rq

vars == << index, candidates, disk, everBuilt, hashSeed, last,
           sq_query, sq_skills, sq_result, sc_distance, sc_result,
           nz_candidate, nz_text, nz_fallback,
           sn_raw, sn_added, sn_searched,
           ex_pct, ex_missing, ex_candidate, ex_result,
           other,
           bt, qt,
           made,
           cq_query, cq_result,
           rk_hits, rk_min_score, rk_result,
           db_cvs, db_matches, db_jobs, db_inserted, delivered, rq >>

matcherVars == << index, candidates, disk, everBuilt, last >>
skillVars == << sq_query, sq_skills, sq_result >>
scoreVars == << sc_distance, sc_result >>
normVars == << nz_candidate, nz_text, nz_fallback >>
sanVars == << sn_raw, sn_added, sn_searched >>
explVars == << ex_pct, ex_missing, ex_candidate, ex_result >>
otherVars == << other >>
threadVars == << bt, qt >>
ctorVars == << made >>
cleanVars == << cq_query, cq_result >>
rankVars == << rk_hits, rk_min_score, rk_result >>
svcVars == << db_cvs, db_matches, db_jobs, db_inserted, delivered, rq >>

\* the variables of the calls of one function on its own
probeVars == << skillVars, scoreVars, normVars, sanVars, explVars, otherVars, threadVars, ctorVars, cleanVars, rankVars, svcVars >>

\* all variables but those of one group of probeVars
probesButSkill == << scoreVars, normVars, sanVars, explVars, otherVars, threadVars, ctorVars, cleanVars, rankVars, svcVars >>
exceptSkillVars == << matcherVars, hashSeed, probesButSkill >>
probesButScore == << skillVars, normVars, sanVars, explVars, otherVars, threadVars, ctorVars, cleanVars, rankVars, svcVars >>
exceptScoreVars == << matcherVars, hashSeed, probesButScore >>
probesButNorm == << skillVars, scoreVars, sanVars, explVars, otherVars, threadVars, ctorVars, cleanVars, rankVars, svcVars >>
exceptNormVars == << matcherVars, hashSeed, probesButNorm >>
probesButSan == << skillVars, scoreVars, normVars, explVars, otherVars, threadVars, ctorVars, cleanVars, rankVars, svcVars >>
exceptSanVars == << matcherVars, hashSeed, probesButSan >>
probesButExpl == << skillVars, scoreVars, normVars, sanVars, otherVars, threadVars, ctorVars, cleanVars, rankVars, svcVars >>
exceptExplVars == << matcherVars, hashSeed, probesButExpl >>
probesButOther == << skillVars, scoreVars, normVars, sanVars, explVars, threadVars, ctorVars, cleanVars, rankVars, svcVars >>
exceptOtherVars == << matcherVars, hashSeed, probesButOther >>
probesButThread == << skillVars, scoreVars, normVars, sanVars, explVars, otherVars, ctorVars, cleanVars, rankVars, svcVars >>
exceptThreadVars == << matcherVars, hashSeed, probesButThread >>
probesButCtor == << skillVars, scoreVars, normVars, sanVars, explVars, otherVars, threadVars, cleanVars, rankVars, svcVars >>
exceptCtorVars == << matcherVars, hashSeed, probesButCtor >>
probesButClean == << skillVars, scoreVars, normVars, sanVars, explVars, otherVars, threadVars, ctorVars, rankVars, svcVars >>
exceptCleanVars == << matcherVars, hashSeed, probesButClean >>
probesButRank == << skillVars, scoreVars, normVars, sanVars, explVars, otherVars, threadVars, ctorVars, cleanVars, svcVars >>
exceptRankVars == << matcherVars, hashSeed, probesButRank >>
probesButSvc == << skillVars, scoreVars, normVars, sanVars, explVars, otherVars, threadVars, ctorVars, cleanVars, rankVars >>
exceptSvcVars == << matcherVars, hashSeed, probesButSvc >>

-----------------------------------------------------------------------------
(* Characters and the str methods the code uses.                           *)

UpperChars == <<"A", "B", "C", "D", "E", "F", "G", "H", "I", "J", "K", "L", "M", "N", "O", "P", "Q", "R", "S", "T", "U", "V", "W", "X", "Y", "Z">>

LowerChars == <<"a", "b", "c", "d", "e", "f", "g", "h", "i", "j", "k", "l", "m", "n", "o", "p", "q", "r", "s", "t", "u", "v", "w", "x", "y", "z">>

DigitChars == <<"0", "1", "2", "3", "4", "5", "6", "7", "8", "9">>

\* The characters the str methods and the patterns of the code are modelled
\* on: Basic Latin, Latin-1 Supplement and Latin Extended-A (U+0000 to
\* U+017F), the white space of Unicode, and the characters outside these
\* ranges the case mappings of these lead to.

\* str.isspace(), the class \s of the re module on str patterns and the
\* characters str.strip() removes
SpaceChars ==
    { "\t", "\n", "U+000B", "\f", "\r", "U+001C", "U+001D", "U+001E", "U+001F",
      " ", "U+0085", "U+00A0", "U+1680", "U+2000", "U+2001", "U+2002", "U+2003",
      "U+2004", "U+2005", "U+2006", "U+2007", "U+2008", "U+2009", "U+200A",
      "U+2028", "U+2029", "U+202F", "U+205F", "U+3000" }

Range(s) == { s[i] : i \in 1..Len(s) }

\* \w of the re module on str patterns: the letters and the digits of
\* Unicode, and the underscore.
WordSet ==
    { "0", "1", "2", "3", "4", "5", "6", "7", "8", "9", "A", "B", "C", "D", "E",
      "F", "G", "H", "I", "J", "K", "L", "M", "N", "O", "P", "Q", "R", "S", "T",
      "U", "V", "W", "X", "Y", "Z", "_", "a", "b", "c", "d", "e", "f", "g", "h",
      "i", "j", "k", "l", "m", "n", "o", "p", "q", "r", "s", "t", "u", "v", "w",
      "x", "y", "z", "U+00AA", "U+00B2", "U+00B3", "U+00B5", "U+00B9", "U+00BA",
      "U+00BC", "U+00BD", "U+00BE", "U+00C0", "U+00C1", "U+00C2", "U+00C3",
      "U+00C4", "U+00C5", "U+00C6", "U+00C7", "U+00C8", "U+00C9", "U+00CA",
      "U+00CB", "U+00CC", "U+00CD", "U+00CE", "U+00CF", "U+00D0", "U+00D1",
      "U+00D2", "U+00D3", "U+00D4", "U+00D5", "U+00D6", "U+00D8", "U+00D9",
      "U+00DA", "U+00DB", "U+00DC", "U+00DD", "U+00DE", "U+00DF", "U+00E0",
      "U+00E1", "U+00E2", "U+00E3", "U+00E4", "U+00E5", "U+00E6", "U+00E7",
      "U+00E8", "U+00E9", "U+00EA", "U+00EB", "U+00EC", "U+00ED", "U+00EE",
      "U+00EF", "U+00F0", "U+00F1", "U+00F2", "U+00F3", "U+00F4", "U+00F5",
      "U+00F6", "U+00F8", "U+00F9", "U+00FA", "U+00FB", "U+00FC", "U+00FD",
      "U+00FE", "U+00FF", "U+0100", "U+0101", "U+0102", "U+0103", "U+0104",
      "U+0105", "U+0106", "U+0107", "U+0108", "U+0109", "U+010A", "U+010B",
      "U+010C", "U+010D", "U+010E", "U+010F", "U+0110", "U+0111", "U+0112",
      "U+0113", "U+0114", "U+0115", "U+0116", "U+0117", "U+0118", "U+0119",
      "U+011A", "U+011B", "U+011C", "U+011D", "U+011E", "U+011F", "U+0120",
      "U+0121", "U+0122", "U+0123", "U+0124", "U+0125", "U+0126", "U+0127",
      "U+0128", "U+0129", "U+012A", "U+012B", "U+012C", "U+012D", "U+012E",
      "U+012F", "U+0130", "U+0131", "U+0132", "U+0133", "U+0134", "U+0135",
      "U+0136", "U+0137", "U+0138", "U+0139", "U+013A", "U+013B", "U+013C",
      "U+013D", "U+013E", "U+013F", "U+0140", "U+0141", "U+0142", "U+0143",
      "U+0144", "U+0145", "U+0146", "U+0147", "U+0148", "U+0149", "U+014A",
      "U+014B", "U+014C", "U+014D", "U+014E", "U+014F", "U+0150", "U+0151",
      "U+0152", "U+0153", "U+0154", "U+0155", "U+0156", "U+0157", "U+0158",
      "U+0159", "U+015A", "U+015B", "U+015C", "U+015D", "U+015E", "U+015F",
      "U+0160", "U+0161", "U+0162", "U+0163", "U+0164", "U+0165", "U+0166",
      "U+0167", "U+0168", "U+0169", "U+016A", "U+016B", "U+016C", "U+016D",
      "U+016E", "U+016F", "U+0170", "U+0171", "U+0172", "U+0173", "U+0174",
      "U+0175", "U+0176", "U+0177", "U+0178", "U+0179", "U+017A", "U+017B",
      "U+017C", "U+017D", "U+017E", "U+017F", "U+02BC", "U+039C", "U+03BC",
      "U+212A" }

\* the cased characters: str.title() upper-cases a character that does not
\* follow one of these
CasedSet ==
    { "A", "B", "C", "D", "E", "F", "G", "H", "I", "J", "K", "L", "M", "N", "O",
      "P", "Q", "R", "S", "T", "U", "V", "W", "X", "Y", "Z", "a", "b", "c", "d",
      "e", "f", "g", "h", "i", "j", "k", "l", "m", "n", "o", "p", "q", "r", "s",
      "t", "u", "v", "w", "x", "y", "z", "U+00AA", "U+00B5", "U+00BA", "U+00C0",
      "U+00C1", "U+00C2", "U+00C3", "U+00C4", "U+00C5", "U+00C6", "U+00C7",
      "U+00C8", "U+00C9", "U+00CA", "U+00CB", "U+00CC", "U+00CD", "U+00CE",
      "U+00CF", "U+00D0", "U+00D1", "U+00D2", "U+00D3", "U+00D4", "U+00D5",
      "U+00D6", "U+00D8", "U+00D9", "U+00DA", "U+00DB", "U+00DC", "U+00DD",
      "U+00DE", "U+00DF", "U+00E0", "U+00E1", "U+00E2", "U+00E3", "U+00E4",
      "U+00E5", "U+00E6", "U+00E7", "U+00E8", "U+00E9", "U+00EA", "U+00EB",
      "U+00EC", "U+00ED", "U+00EE", "U+00EF", "U+00F0", "U+00F1", "U+00F2",
      "U+00F3", "U+00F4", "U+00F5", "U+00F6", "U+00F8", "U+00F9", "U+00FA",
      "U+00FB", "U+00FC", "U+00FD", "U+00FE", "U+00FF", "U+0100", "U+0101",
      "U+0102", "U+0103", "U+0104", "U+0105", "U+0106", "U+0107", "U+0108",
      "U+0109", "U+010A", "U+010B", "U+010C", "U+010D", "U+010E", "U+010F",
      "U+0110", "U+0111", "U+0112", "U+0113", "U+0114", "U+0115", "U+0116",
      "U+0117", "U+0118", "U+0119", "U+011A", "U+011B", "U+011C", "U+011D",
      "U+011E", "U+011F", "U+0120", "U+0121", "U+0122", "U+0123", "U+0124",
      "U+0125", "U+0126", "U+0127", "U+0128", "U+0129", "U+012A", "U+012B",
      "U+012C", "U+012D", "U+012E", "U+012F", "U+0130", "U+0131", "U+0132",
      "U+0133", "U+0134", "U+0135", "U+0136", "U+0137", "U+0138", "U+0139",
      "U+013A", "U+013B", "U+013C", "U+013D", "U+013E", "U+013F", "U+0140",
      "U+0141", "U+0142", "U+0143", "U+0144", "U+0145", "U+0146", "U+0147",
      "U+0148", "U+0149", "U+014A", "U+014B", "U+014C", "U+014D", "U+014E",
      "U+014F", "U+0150", "U+0151", "U+0152", "U+0153", "U+0154", "U+0155",
      "U+0156", "U+0157", "U+0158", "U+0159", "U+015A", "U+015B", "U+015C",
      "U+015D", "U+015E", "U+015F", "U+0160", "U+0161", "U+0162", "U+0163",
      "U+0164", "U+0165", "U+0166", "U+0167", "U+0168", "U+0169", "U+016A",
      "U+016B", "U+016C", "U+016D", "U+016E", "U+016F", "U+0170", "U+0171",
      "U+0172", "U+0173", "U+0174", "U+0175", "U+0176", "U+0177", "U+0178",
      "U+0179", "U+017A", "U+017B", "U+017C", "U+017D", "U+017E", "U+017F",
      "U+039C", "U+03BC", "U+212A" }

IsCased(c) == c \in CasedSet

IsWordChar(c) == c \in WordSet

IsSpace(c) == c \in SpaceChars

\* str.lower() of the characters it changes; U+0130 becomes two characters
LowerOf ==
    "A" :> <<"a">>
    @@ "B" :> <<"b">>
    @@ "C" :> <<"c">>
    @@ "D" :> <<"d">>
    @@ "E" :> <<"e">>
    @@ "F" :> <<"f">>
    @@ "G" :> <<"g">>
    @@ "H" :> <<"h">>
    @@ "I" :> <<"i">>
    @@ "J" :> <<"j">>
    @@ "K" :> <<"k">>
    @@ "L" :> <<"l">>
    @@ "M" :> <<"m">>
    @@ "N" :> <<"n">>
    @@ "O" :> <<"o">>
    @@ "P" :> <<"p">>
    @@ "Q" :> <<"q">>
    @@ "R" :> <<"r">>
    @@ "S" :> <<"s">>
    @@ "T" :> <<"t">>
    @@ "U" :> <<"u">>
    @@ "V" :> <<"v">>
    @@ "W" :> <<"w">>
    @@ "X" :> <<"x">>
    @@ "Y" :> <<"y">>
    @@ "Z" :> <<"z">>
    @@ "U+00C0" :> <<"U+00E0">>
    @@ "U+00C1" :> <<"U+00E1">>
    @@ "U+00C2" :> <<"U+00E2">>
    @@ "U+00C3" :> <<"U+00E3">>
    @@ "U+00C4" :> <<"U+00E4">>
    @@ "U+00C5" :> <<"U+00E5">>
    @@ "U+00C6" :> <<"U+00E6">>
    @@ "U+00C7" :> <<"U+00E7">>
    @@ "U+00C8" :> <<"U+00E8">>
    @@ "U+00C9" :> <<"U+00E9">>
    @@ "U+00CA" :> <<"U+00EA">>
    @@ "U+00CB" :> <<"U+00EB">>
    @@ "U+00CC" :> <<"U+00EC">>
    @@ "U+00CD" :> <<"U+00ED">>
    @@ "U+00CE" :> <<"U+00EE">>
    @@ "U+00CF" :> <<"U+00EF">>
    @@ "U+00D0" :> <<"U+00F0">>
    @@ "U+00D1" :> <<"U+00F1">>
    @@ "U+00D2" :> <<"U+00F2">>
    @@ "U+00D3" :> <<"U+00F3">>
    @@ "U+00D4" :> <<"U+00F4">>
    @@ "U+00D5" :> <<"U+00F5">>
    @@ "U+00D6" :> <<"U+00F6">>
    @@ "U+00D8" :> <<"U+00F8">>
    @@ "U+00D9" :> <<"U+00F9">>
    @@ "U+00DA" :> <<"U+00FA">>
    @@ "U+00DB" :> <<"U+00FB">>
    @@ "U+00DC" :> <<"U+00FC">>
    @@ "U+00DD" :> <<"U+00FD">>
    @@ "U+00DE" :> <<"U+00FE">>
    @@ "U+0100" :> <<"U+0101">>
    @@ "U+0102" :> <<"U+0103">>
    @@ "U+0104" :> <<"U+0105">>
    @@ "U+0106" :> <<"U+0107">>
    @@ "U+0108" :> <<"U+0109">>
    @@ "U+010A" :> <<"U+010B">>
    @@ "U+010C" :> <<"U+010D">>
    @@ "U+010E" :> <<"U+010F">>
    @@ "U+0110" :> <<"U+0111">>
    @@ "U+0112" :> <<"U+0113">>
    @@ "U+0114" :> <<"U+0115">>
    @@ "U+0116" :> <<"U+0117">>
    @@ "U+0118" :> <<"U+0119">>
    @@ "U+011A" :> <<"U+011B">>
    @@ "U+011C" :> <<"U+011D">>
    @@ "U+011E" :> <<"U+011F">>
    @@ "U+0120" :> <<"U+0121">>
    @@ "U+0122" :> <<"U+0123">>
    @@ "U+0124" :> <<"U+0125">>
    @@ "U+0126" :> <<"U+0127">>
    @@ "U+0128" :> <<"U+0129">>
    @@ "U+012A" :> <<"U+012B">>
    @@ "U+012C" :> <<"U+012D">>
    @@ "U+012E" :> <<"U+012F">>
    @@ "U+0130" :> <<"i", "U+0307">>
    @@ "U+0132" :> <<"U+0133">>
    @@ "U+0134" :> <<"U+0135">>
    @@ "U+0136" :> <<"U+0137">>
    @@ "U+0139" :> <<"U+013A">>
    @@ "U+013B" :> <<"U+013C">>
    @@ "U+013D" :> <<"U+013E">>
    @@ "U+013F" :> <<"U+0140">>
    @@ "U+0141" :> <<"U+0142">>
    @@ "U+0143" :> <<"U+0144">>
    @@ "U+0145" :> <<"U+0146">>
    @@ "U+0147" :> <<"U+0148">>
    @@ "U+014A" :> <<"U+014B">>
    @@ "U+014C" :> <<"U+014D">>
    @@ "U+014E" :> <<"U+014F">>
    @@ "U+0150" :> <<"U+0151">>
    @@ "U+0152" :> <<"U+0153">>
    @@ "U+0154" :> <<"U+0155">>
    @@ "U+0156" :> <<"U+0157">>
    @@ "U+0158" :> <<"U+0159">>
    @@ "U+015A" :> <<"U+015B">>
    @@ "U+015C" :> <<"U+015D">>
    @@ "U+015E" :> <<"U+015F">>
    @@ "U+0160" :> <<"U+0161">>
    @@ "U+0162" :> <<"U+0163">>
    @@ "U+0164" :> <<"U+0165">>
    @@ "U+0166" :> <<"U+0167">>
    @@ "U+0168" :> <<"U+0169">>
    @@ "U+016A" :> <<"U+016B">>
    @@ "U+016C" :> <<"U+016D">>
    @@ "U+016E" :> <<"U+016F">>
    @@ "U+0170" :> <<"U+0171">>
    @@ "U+0172" :> <<"U+0173">>
    @@ "U+0174" :> <<"U+0175">>
    @@ "U+0176" :> <<"U+0177">>
    @@ "U+0178" :> <<"U+00FF">>
    @@ "U+0179" :> <<"U+017A">>
    @@ "U+017B" :> <<"U+017C">>
    @@ "U+017D" :> <<"U+017E">>
    @@ "U+039C" :> <<"U+03BC">>
    @@ "U+212A" :> <<"k">>

\* str.title() of the characters it changes, on their own
TitleOf ==
    "a" :> <<"A">>
    @@ "b" :> <<"B">>
    @@ "c" :> <<"C">>
    @@ "d" :> <<"D">>
    @@ "e" :> <<"E">>
    @@ "f" :> <<"F">>
    @@ "g" :> <<"G">>
    @@ "h" :> <<"H">>
    @@ "i" :> <<"I">>
    @@ "j" :> <<"J">>
    @@ "k" :> <<"K">>
    @@ "l" :> <<"L">>
    @@ "m" :> <<"M">>
    @@ "n" :> <<"N">>
    @@ "o" :> <<"O">>
    @@ "p" :> <<"P">>
    @@ "q" :> <<"Q">>
    @@ "r" :> <<"R">>
    @@ "s" :> <<"S">>
    @@ "t" :> <<"T">>
    @@ "u" :> <<"U">>
    @@ "v" :> <<"V">>
    @@ "w" :> <<"W">>
    @@ "x" :> <<"X">>
    @@ "y" :> <<"Y">>
    @@ "z" :> <<"Z">>
    @@ "U+00B5" :> <<"U+039C">>
    @@ "U+00DF" :> <<"S", "s">>
    @@ "U+00E0" :> <<"U+00C0">>
    @@ "U+00E1" :> <<"U+00C1">>
    @@ "U+00E2" :> <<"U+00C2">>
    @@ "U+00E3" :> <<"U+00C3">>
    @@ "U+00E4" :> <<"U+00C4">>
    @@ "U+00E5" :> <<"U+00C5">>
    @@ "U+00E6" :> <<"U+00C6">>
    @@ "U+00E7" :> <<"U+00C7">>
    @@ "U+00E8" :> <<"U+00C8">>
    @@ "U+00E9" :> <<"U+00C9">>
    @@ "U+00EA" :> <<"U+00CA">>
    @@ "U+00EB" :> <<"U+00CB">>
    @@ "U+00EC" :> <<"U+00CC">>
    @@ "U+00ED" :> <<"U+00CD">>
    @@ "U+00EE" :> <<"U+00CE">>
    @@ "U+00EF" :> <<"U+00CF">>
    @@ "U+00F0" :> <<"U+00D0">>
    @@ "U+00F1" :> <<"U+00D1">>
    @@ "U+00F2" :> <<"U+00D2">>
    @@ "U+00F3" :> <<"U+00D3">>
    @@ "U+00F4" :> <<"U+00D4">>
    @@ "U+00F5" :> <<"U+00D5">>
    @@ "U+00F6" :> <<"U+00D6">>
    @@ "U+00F8" :> <<"U+00D8">>
    @@ "U+00F9" :> <<"U+00D9">>
    @@ "U+00FA" :> <<"U+00DA">>
    @@ "U+00FB" :> <<"U+00DB">>
    @@ "U+00FC" :> <<"U+00DC">>
    @@ "U+00FD" :> <<"U+00DD">>
    @@ "U+00FE" :> <<"U+00DE">>
    @@ "U+00FF" :> <<"U+0178">>
    @@ "U+0101" :> <<"U+0100">>
    @@ "U+0103" :> <<"U+0102">>
    @@ "U+0105" :> <<"U+0104">>
    @@ "U+0107" :> <<"U+0106">>
    @@ "U+0109" :> <<"U+0108">>
    @@ "U+010B" :> <<"U+010A">>
    @@ "U+010D" :> <<"U+010C">>
    @@ "U+010F" :> <<"U+010E">>
    @@ "U+0111" :> <<"U+0110">>
    @@ "U+0113" :> <<"U+0112">>
    @@ "U+0115" :> <<"U+0114">>
    @@ "U+0117" :> <<"U+0116">>
    @@ "U+0119" :> <<"U+0118">>
    @@ "U+011B" :> <<"U+011A">>
    @@ "U+011D" :> <<"U+011C">>
    @@ "U+011F" :> <<"U+011E">>
    @@ "U+0121" :> <<"U+0120">>
    @@ "U+0123" :> <<"U+0122">>
    @@ "U+0125" :> <<"U+0124">>
    @@ "U+0127" :> <<"U+0126">>
    @@ "U+0129" :> <<"U+0128">>
    @@ "U+012B" :> <<"U+012A">>
    @@ "U+012D" :> <<"U+012C">>
    @@ "U+012F" :> <<"U+012E">>
    @@ "U+0131" :> <<"I">>
    @@ "U+0133" :> <<"U+0132">>
    @@ "U+0135" :> <<"U+0134">>
    @@ "U+0137" :> <<"U+0136">>
    @@ "U+013A" :> <<"U+0139">>
    @@ "U+013C" :> <<"U+013B">>
    @@ "U+013E" :> <<"U+013D">>
    @@ "U+0140" :> <<"U+013F">>
    @@ "U+0142" :> <<"U+0141">>
    @@ "U+0144" :> <<"U+0143">>
    @@ "U+0146" :> <<"U+0145">>
    @@ "U+0148" :> <<"U+0147">>
    @@ "U+0149" :> <<"U+02BC", "N">>
    @@ "U+014B" :> <<"U+014A">>
    @@ "U+014D" :> <<"U+014C">>
    @@ "U+014F" :> <<"U+014E">>
    @@ "U+0151" :> <<"U+0150">>
    @@ "U+0153" :> <<"U+0152">>
    @@ "U+0155" :> <<"U+0154">>
    @@ "U+0157" :> <<"U+0156">>
    @@ "U+0159" :> <<"U+0158">>
    @@ "U+015B" :> <<"U+015A">>
    @@ "U+015D" :> <<"U+015C">>
    @@ "U+015F" :> <<"U+015E">>
    @@ "U+0161" :> <<"U+0160">>
    @@ "U+0163" :> <<"U+0162">>
    @@ "U+0165" :> <<"U+0164">>
    @@ "U+0167" :> <<"U+0166">>
    @@ "U+0169" :> <<"U+0168">>
    @@ "U+016B" :> <<"U+016A">>
    @@ "U+016D" :> <<"U+016C">>
    @@ "U+016F" :> <<"U+016E">>
    @@ "U+0171" :> <<"U+0170">>
    @@ "U+0173" :> <<"U+0172">>
    @@ "U+0175" :> <<"U+0174">>
    @@ "U+0177" :> <<"U+0176">>
    @@ "U+017A" :> <<"U+0179">>
    @@ "U+017C" :> <<"U+017B">>
    @@ "U+017E" :> <<"U+017D">>
    @@ "U+017F" :> <<"S">>
    @@ "U+03BC" :> <<"U+039C">>

\* c.lower(), a text
CharLower(c) == IF c \in DOMAIN LowerOf THEN LowerOf[c] ELSE << c >>

\* c.title(), a text
CharTitle(c) == IF c \in DOMAIN TitleOf THEN TitleOf[c] ELSE << c >>

\* the texts of parts, one after the other
RECURSIVE Flatten(_)
Flatten(parts) == IF parts = << >> THEN << >> ELSE parts[1] \o Flatten(Tail(parts))

\* str.lower()
Lower(s) == Flatten([ i \in 1..Len(s) |-> CharLower(s[i]) ])

\* str.title(): a character that follows no cased character gets its title
\* case, a character that follows a cased character is lower-cased.
Title(s) ==
    Flatten([ i \in 1..Len(s) |->
                IF i = 1 \/ ~IsCased(s[i - 1]) THEN CharTitle(s[i]) ELSE CharLower(s[i]) ])

RECURSIVE LStrip(_)
LStrip(s) == IF s # << >> /\ IsSpace(s[1]) THEN LStrip(Tail(s)) ELSE s

RECURSIVE RStrip(_)
RStrip(s) ==
    IF s # << >> /\ IsSpace(s[Len(s)]) THEN RStrip(SubSeq(s, 1, Len(s) - 1)) ELSE s

\* str.strip()
Strip(s) == RStrip(LStrip(s))

\* sep.join(parts)
RECURSIVE Join(_, _)
Join(parts, sep) ==
    IF parts = << >> THEN << >>
    ELSE IF Len(parts) = 1 THEN parts[1]
    ELSE parts[1] \o sep \o Join(Tail(parts), sep)

\* needle in haystack (substring test of str)
Contains(needle, haystack) ==
    \E i \in 0..(Len(haystack) - Len(needle)) :
        SubSeq(haystack, i + 1, i + Len(needle)) = needle

\* s[:n]
Prefix(s, n) == SubSeq(s, 1, IF Len(s) < n THEN Len(s) ELSE n)

Min(a, b) == IF a < b THEN a ELSE b

-----------------------------------------------------------------------------
(* _find_missing_skills                                                    *)

tech_keywords ==
    << <<"p", "y", "t", "h", "o", "n">>,
       <<"j", "a", "v", "a">>,
       <<"j", "a", "v", "a", "s", "c", "r", "i", "p", "t">>,
       <<"r", "e", "a", "c", "t">>,
       <<"a", "n", "g", "u", "l", "a", "r">>,
       <<"v", "u", "e">>,
       <<"n", "o", "d", "e", ".", "j", "s">>,
       <<"d", "o", "c", "k", "e", "r">>,
       <<"k", "u", "b", "e", "r", "n", "e", "t", "e", "s">>,
       <<"a", "w", "s">>,
       <<"a", "z", "u", "r", "e">>,
       <<"g", "i", "t">>,
       <<"s", "q", "l">>,
       <<"m", "o", "n", "g", "o", "d", "b">>,
       <<"m", "a", "c", "h", "i", "n", "e", " ", "l", "e", "a", "r", "n", "i", "n", "g">>,
       <<"a", "i">>,
       <<"d", "a", "t", "a", " ", "s", "c", "i", "e", "n", "c", "e">>,
       <<"h", "t", "m", "l">>,
       <<"c", "s", "s">>,
       <<"p", "h", "p">>,
       <<"d", "j", "a", "n", "g", "o">>,
       <<"f", "l", "a", "s", "k">>,
       <<"s", "p", "r", "i", "n", "g">>,
       <<"l", "a", "r", "a", "v", "e", "l">>,
       <<"t", "e", "n", "s", "o", "r", "f", "l", "o", "w">>,
       <<"p", "y", "t", "o", "r", "c", "h">>,
       <<"o", "p", "e", "n", "c", "v">>,
       <<"p", "a", "n", "d", "a", "s">>,
       <<"n", "u", "m", "p", "y">>,
       <<"s", "c", "i", "k", "i", "t", "-", "l", "e", "a", "r", "n">>,
       <<"t", "a", "b", "l", "e", "a", "u">>,
       <<"p", "o", "w", "e", "r", "b", "i">> >>

\* The iteration order of a Python set of str is decided by the hashes of
\* its members, which change with the hash seed of the process: a process
\* can give a set any order of its members, and gives the same set the same
\* order each time.  A seed stands for the orders a process gives: the set
\* of n terms gets order number seed % n! of its n! orders, order 0 being
\* the order of the vocabulary.
RECURSIVE Factorial(_)
Factorial(n) == IF n <= 1 THEN 1 ELSE n * Factorial(n - 1)

\* the member of S with exactly place members of S before it
Nth(S, place) == CHOOSE i \in S : Cardinality({ j \in S : j < i }) = place

\* list(set(xs)) for xs the terms whose vocabulary positions are in S
RECURSIVE SetOrder(_, _)
SetOrder(seed, S) ==
    IF S = {} THEN << >>
    ELSE LET below == Factorial(Cardinality(S) - 1)
             number == seed % (Cardinality(S) * below)
             first == Nth(S, number \div below)
         IN  << first >> \o SetOrder(number % below, S \ {first})

\* the seeds that give a set of n terms each of its orders once
SeedsFor(n) == 0..(Factorial(n) - 1)

\* The vocabulary positions of the terms the loop of lines 243-245 appends.
QualifyingTerms(query, candidate_skills) ==
    LET query_lower == Lower(query)
        candidate_skills_lower ==
            [ i \in 1..Len(candidate_skills) |-> Lower(candidate_skills[i]) ]
        joined == Join(candidate_skills_lower, << " " >>)
    IN  { t \in 1..Len(tech_keywords) :
            /\ Contains(tech_keywords[t], query_lower)
            /\ ~Contains(tech_keywords[t], joined) }

\* FindMissingSkills without the cut to 5 entries
FindMissingSkillsNoCap(seed, query, candidate_skills) ==
    LET as_list == SetOrder(seed, QualifyingTerms(query, candidate_skills))
    IN  [ i \in 1..Len(as_list) |-> Title(tech_keywords[as_list[i]]) ]

FindMissingSkills(seed, query, candidate_skills) ==
    LET qualifying == QualifyingTerms(query, candidate_skills)
        \* distinct terms have distinct title-cased forms, so the set of the
        \* appended strings has one member per qualifying term
        as_list == SetOrder(seed, qualifying)
        missing_skills == [ i \in 1..Len(as_list) |-> Title(tech_keywords[as_list[i]]) ]
    IN  Prefix(missing_skills, 5)

-----------------------------------------------------------------------------
(* _clean_query                                                            *)

\* re.sub(r'\s+', ' ', query): every maximal run of whitespace becomes one space
RECURSIVE CollapseSpaces(_)
CollapseSpaces(s) ==
    IF s = << >> THEN << >>
    ELSE IF IsSpace(s[1])
         THEN << " " >> \o CollapseSpaces(LStrip(s))
         ELSE << s[1] >> \o CollapseSpaces(Tail(s))

\* The least j > i + 1 with s[j] = ">", or 0: where a tag opened at i closes.
\* '<[^>]+>' needs at least one character other than ">" after the "<".
TagEnd(s, i) ==
    IF i + 1 <= Len(s) /\ s[i + 1] # ">" /\ \E j \in (i + 2)..Len(s) : s[j] = ">"
    THEN CHOOSE j \in (i + 2)..Len(s) :
            s[j] = ">" /\ \A m \in (i + 2)..(j - 1) : s[m] # ">"
    ELSE 0

\* re.sub(r'<[^>]+>', '', query): leftmost matches, removed left to right
RECURSIVE StripTags(_)
StripTags(s) ==
    IF s = << >> THEN << >>
    ELSE IF s[1] = "<" /\ TagEnd(s, 1) # 0
         THEN StripTags(SubSeq(s, TagEnd(s, 1) + 1, Len(s)))
         ELSE << s[1] >> \o StripTags(Tail(s))

\* re.sub(r'[^\w\s.,;:-]', '', query)
KeptSet == WordSet \cup SpaceChars \cup {".", ",", ";", ":", "-"}

KeptByClean(c) == c \in KeptSet

StripOther(s) == SelectSeq(s, KeptByClean)

CleanQuery(query) == Strip(StripOther(StripTags(CollapseSpaces(query))))

-----------------------------------------------------------------------------
(* The embedding model (SentenceTransformer.encode) and the FAISS flat     *)
(* L2 index.                                                               *)

\* Bounds of the vector space of the model: the number of components of an
\* embedding and the number of values a component takes.
Dimension == 2

EmbRange == 7

Alphabet ==
    LowerChars \o UpperChars \o DigitChars
        \o << " ", ".", ",", ";", ":", "-", "_", "+", "&", "(", ")", "!", "<", ">", "/",
              "U+0131", "U+011F", "\n", "\t" >>

AlphabetSet == Range(Alphabet)

CodeOf == [ c \in AlphabetSet |-> CHOOSE i \in 1..Len(Alphabet) : Alphabet[i] = c ]

CharCode(c) == IF c \in AlphabetSet THEN CodeOf[c] ELSE 0

RECURSIVE WeightedSum(_, _, _)
WeightedSum(text, i, j) ==
    IF i > Len(text) THEN 0
    ELSE CharCode(text[i]) * (i + j) + WeightedSum(text, i + 1, j)

\* The embedding model is an external, deterministic function from a text
\* to a vector of fixed dimension; it is modelled by a function of the
\* characters of the text and their places.
Embed(text) == [ j \in 1..Dimension |-> WeightedSum(text, 1, j) % EmbRange ]

RECURSIVE SumSquares(_, _, _)
SumSquares(u, v, j) ==
    IF j > Len(u) THEN 0
    ELSE (u[j] - v[j]) * (u[j] - v[j]) + SumSquares(u, v, j + 1)

\* squared Euclidean distance, the metric of IndexFlatL2
L2Sqr(u, v) == SumSquares(u, v, 1)

\* index.search(query_vector, k): the k nearest positions, nearest first,
\* equal distances in ascending position; positions are 0-based as in FAISS.
RECURSIVE NearestFirst(_, _, _)
NearestFirst(vecs, qv, left) ==
    IF left = {} THEN << >>
    ELSE LET best == CHOOSE p \in left : \A o \in left \ {p} :
                        \/ L2Sqr(vecs[p], qv) < L2Sqr(vecs[o], qv)
                        \/ L2Sqr(vecs[p], qv) = L2Sqr(vecs[o], qv) /\ p < o
         IN  << [distance |-> L2Sqr(vecs[best], qv), idx |-> best - 1] >>
                \o NearestFirst(vecs, qv, left \ {best})

\* IndexSearch without the cut to k positions
IndexSearchUncut(vecs, qv, k) == NearestFirst(vecs, qv, 1..Len(vecs))

IndexSearch(vecs, qv, k) == Prefix(NearestFirst(vecs, qv, 1..Len(vecs)), k)

\* The distance FAISS reports for a place of the result it has no vector
\* for: the largest float32, which stands above every distance of the
\* model and gives a match percentage that rounds to 0.
PadDistance == 10000000

\* index.search with a k above the number of vectors of the index: the
\* places without a vector hold the position -1 and PadDistance.
PaddedSearch(vecs, qv, k) ==
    IndexSearch(vecs, qv, k)
        \o [ i \in 1..(k - Len(vecs)) |-> [distance |-> PadDistance, idx |-> 0 - 1] ]

-----------------------------------------------------------------------------
(* Candidate records.  A candidate is the dictionary the callers pass:     *)
(* id is str(candidate["_id"]); summary is a str (tag "str"), absent or    *)
(* None (tag "none") or a value that is no str (tag "int"); cv_kind tells  *)
(* whether cv_data is a dictionary or None; an experience or education     *)
(* entry is a dictionary (kind "dict") or something else; an absent or     *)
(* empty str field is the empty sequence.                                  *)

CandA ==
    [ id |-> "A",
      summary |-> [tag |-> "str", s |-> <<"P", "y", "t", "h", "o", "n", ",", " ", "A", "W", "S">>],
      cv_kind |-> "dict",
      names |-> << <<"A", "d", "a">> >>,
      skills |-> << <<"P", "y", "t", "h", "o", "n">>, <<"A", "W", "S">> >>,
      experience |-> << >>,
      education |-> << >> ]

CandB ==
    [ id |-> "B",
      summary |-> [tag |-> "str", s |-> <<"J", "a", "v", "a", " ", "d", "e", "v", ",", " ", "D", "o", "c", "k", "e", "r">>],
      cv_kind |-> "dict",
      names |-> << <<"B", "o", "r", "a">> >>,
      skills |-> << <<"J", "a", "v", "a">>, <<"D", "o", "c", "k", "e", "r">> >>,
      experience |-> << [kind |-> "dict", position |-> <<"D", "e", "v", "e", "l", "o", "p", "e", "r">>,
                       company |-> <<"A", "c", "m", "e">>] >>,
      education |-> << [kind |-> "dict", institution |-> <<"I", "T", "U">>,
                      degree_type |-> <<"B", "S", "c">>] >> ]

CandC ==
    [ id |-> "C",
      summary |-> [tag |-> "str", s |-> <<"G", "o", " ", "(", "s", "e", "n", "i", "o", "r", ")", "!">>],
      cv_kind |-> "dict",
      names |-> << >>,
      skills |-> << <<"G", "o">> >>,
      experience |-> << >>,
      education |-> << >> ]

CandD ==
    [ id |-> "D",
      summary |-> [tag |-> "none", s |-> << >>],
      cv_kind |-> "dict",
      names |-> << <<"D", "e", "n", "i", "z">> >>,
      skills |-> << <<"G", "o">>, <<"K", "u", "b", "e", "r", "n", "e", "t", "e", "s">> >>,
      experience |-> << [kind |-> "dict", position |-> <<"E", "n", "g", "i", "n", "e", "e", "r">>,
                       company |-> <<>>], [kind |-> "dict", position |-> <<>>,
                       company |-> <<"A", "c", "m", "e">>] >>,
      education |-> << [kind |-> "dict", institution |-> <<"I", "T", "U">>,
                      degree_type |-> <<>>] >> ]

CandE ==
    [ id |-> "E",
      summary |-> [tag |-> "int", s |-> << >>],
      cv_kind |-> "dict",
      names |-> << >>,
      skills |-> << <<"S", "Q", "L">> >>,
      experience |-> << >>,
      education |-> << >> ]

\* a summary, and an experience entry that is a str, not a dictionary
CandF ==
    [ id |-> "F",
      summary |-> [tag |-> "str", s |-> <<"R", "u", "s", "t", ",", " ", "K", "a", "f", "k", "a">>],
      cv_kind |-> "dict",
      names |-> << <<"E", "f", "e">> >>,
      skills |-> << <<"R", "u", "s", "t">> >>,
      experience |-> << [kind |-> "str", position |-> << >>, company |-> << >>] >>,
      education |-> << >> ]

\* a summary, and cv_data present but None
CandG ==
    [ id |-> "G",
      summary |-> [tag |-> "str", s |-> <<"S", "Q", "L", " ", "a", "n", "a", "l", "y", "s", "t">>],
      cv_kind |-> "none",
      names |-> << >>,
      skills |-> << >>,
      experience |-> << >>,
      education |-> << >> ]

\* The candidate records of the model.
CandidatePool == << CandA, CandB, CandC, CandD, CandE, CandF, CandG >>

-----------------------------------------------------------------------------
(* Bounds and the arguments the operations are called with                 *)

\* the longest candidate list passed to create_index
MaxCands == 2

\* the largest k passed to find_matches and batch_search
MaxK == 2

\* the largest distance the score is computed for on its own
MaxDistance == 120

\* the number of words of QueryWords a query text of the missing-skill
\* analysis is made of
MaxQueryWords == 7

\* The words the query texts of the missing-skill analysis are made of.
QueryWords ==
    << <<"P", "y", "t", "h", "o", "n">>,
       <<"J", "A", "V", "A">>,
       <<"R", "e", "a", "c", "t">>,
       <<"d", "o", "c", "k", "e", "r">>,
       <<"A", "W", "S">>,
       <<"s", "q", "l">>,
       <<"G", "i", "t">>,
       <<"m", "a", "i", "n", "t", "a", "i", "n">>,
       <<"J", "a", "v", "a", "S", "c", "r", "i", "p", "t">> >>

\* The words at the places of S, in their order, joined by spaces.
RECURSIVE WordsAt(_, _)
WordsAt(S, i) ==
    IF i > Len(QueryWords) THEN << >>
    ELSE (IF i \in S THEN << QueryWords[i] >> ELSE << >>) \o WordsAt(S, i + 1)

SkillQueries ==
    { Join(WordsAt(S, 1), << " " >>) :
        S \in SUBSET (1..Min(MaxQueryWords, Len(QueryWords))) }

SkillLists ==
    { << >>,
      << <<"J", "a", "v", "a">> >>,
      << <<"P", "y", "t", "h", "o", "n">>, <<"S", "Q", "L">> >>,
      << <<"R", "e", "a", "c", "t", " ", "N", "a", "t", "i", "v", "e">>, <<"J", "a", "v", "a", "S", "c", "r", "i", "p", "t">> >> }

RECURSIVE SeqsUpTo(_, _)
SeqsUpTo(S, n) ==
    IF n = 0 THEN { << >> }
    ELSE LET shorter == SeqsUpTo(S, n - 1)
         IN  shorter \cup { Append(s, x) : s \in { t \in shorter : Len(t) = n - 1 }, x \in S }

\* The lists create_index is called with: every list of up to MaxCands
\* well-formed candidates, and the lists of one malformed candidate.
CandidateLists ==
    SeqsUpTo({ CandA, CandC }, MaxCands) \cup { << CandE >>, << CandF >>, << CandG >> }

\* The ids update_candidate and remove_candidate are called with; no
\* candidate has the id "Z".
CandidateIds == { "A", "C", "Z" }

\* The records update_candidate is called with.
UpdateData == { CandA, CandC }

QueryPool ==
    << CandA.summary.s,
       CandC.summary.s,
       <<" ", " ", " ">> >>

Queries == Range(QueryPool)

BatchInputs == { << >>, << QueryPool[1], QueryPool[2] >>, << QueryPool[1], QueryPool[3] >> }

KValues == 0..MaxK

MinScores == { 0, 7141 }

\* The postings POST /job-posting is called with: one whose text has two
\* terms of the vocabulary, and one without requirements.
JobPool ==
    { [ title |-> <<"P", "y", "t", "h", "o", "n">>,
        description |-> <<"e", "n", "g", "i", "n", "e", "e", "r">>,
        requirements |-> << <<"D", "o", "c", "k", "e", "r">> >>,
        company |-> <<"A", "c", "m", "e">> ],
      [ title |-> <<"P", "y", "t", "h", "o", "n">>,
        description |-> <<"e", "n", "g", "i", "n", "e", "e", "r">>,
        requirements |-> << >>,
        company |-> <<"A", "c", "m", "e">> ] }

\* line 246: the title, the description and the requirements of the job
JobText(job) ==
    job.title \o << " " >> \o job.description \o << " " >>
        \o Join(job.requirements, << " " >>)

\* The texts find_matches is called with.
MatchedTexts == Queries \cup { JobText(job) : job \in JobPool }

\* the largest number of terms of the vocabulary a text of MatchedTexts has
\* and a candidate lacks
MaxTerms ==
    LET sizes == { Cardinality(QualifyingTerms(query, candidate.skills)) :
                     query \in MatchedTexts, candidate \in Range(CandidatePool) }
    IN  CHOOSE n \in sizes : \A m \in sizes : m <= n

\* The hash seeds a process can start with: one for each order of the
\* largest set of missing skills a text of MatchedTexts has.
Seeds == SeedsFor(MaxTerms)

-----------------------------------------------------------------------------
(* _create_fallback_text and the text selection of create_index            *)

RECURSIVE ExpTexts(_)
ExpTexts(experience) ==
    IF experience = << >> THEN << >>
    ELSE (IF experience[1].position # << >> THEN << experience[1].position >> ELSE << >>)
         \o (IF experience[1].company # << >> THEN << experience[1].company >> ELSE << >>)
         \o ExpTexts(Tail(experience))

RECURSIVE EduTexts(_)
EduTexts(education) ==
    IF education = << >> THEN << >>
    ELSE (IF education[1].institution # << >> THEN << education[1].institution >> ELSE << >>)
         \o (IF education[1].degree_type # << >> THEN << education[1].degree_type >> ELSE << >>)
         \o EduTexts(Tail(education))

\* TRUE when a statement of the try block of _create_fallback_text raises
FallbackRaises(candidate) ==
    \/ candidate.cv_kind # "dict"
    \/ \E i \in 1..Min(3, Len(candidate.experience)) : candidate.experience[i].kind # "dict"
    \/ \E i \in 1..Min(2, Len(candidate.education)) : candidate.education[i].kind # "dict"

\* CreateFallbackText with every skill in the skills clause
CreateFallbackTextAllSkills(candidate) ==
    IF FallbackRaises(candidate)
    THEN <<"A", "d", "a", "y", " ", "b", "i", "l", "g", "i", "s", "i">>
    ELSE
    LET exp_texts == ExpTexts(Prefix(candidate.experience, 3))
        edu_texts == EduTexts(Prefix(candidate.education, 2))
        text_parts ==
            (IF candidate.names # << >>
             THEN << <<"A", "d", ":", " ">> \o candidate.names[1] >> ELSE << >>)
            \o (IF candidate.skills # << >>
                THEN << <<"B", "e", "c", "e", "r", "i", "l", "e", "r", ":", " ">>
                          \o Join(candidate.skills, << ",", " " >>) >>
                ELSE << >>)
            \o (IF exp_texts # << >>
                THEN << <<"D", "e", "n", "e", "y", "i", "m", ":", " ">>
                          \o Join(exp_texts, << ",", " " >>) >>
                ELSE << >>)
            \o (IF edu_texts # << >>
                THEN << <<"E", "U+011F", "i", "t", "i", "m", ":", " ">>
                          \o Join(edu_texts, << ",", " " >>) >>
                ELSE << >>)
        fallback_text == Join(text_parts, << ";", " " >>)
    IN  IF fallback_text # << >> THEN fallback_text
        ELSE <<"D", "e", "t", "a", "y", " ", "b", "i", "l", "g", "i", " ", "b", "u", "l", "u", "n", "a", "m", "a", "d", "U+0131">>

CreateFallbackText(candidate) ==
    IF FallbackRaises(candidate)
    THEN <<"A", "d", "a", "y", " ", "b", "i", "l", "g", "i", "s", "i">>
    ELSE
    LET exp_texts == ExpTexts(Prefix(candidate.experience, 3))
        edu_texts == EduTexts(Prefix(candidate.education, 2))
        text_parts ==
            (IF candidate.names # << >>
             THEN << <<"A", "d", ":", " ">> \o candidate.names[1] >> ELSE << >>)
            \o (IF candidate.skills # << >>
                THEN << <<"B", "e", "c", "e", "r", "i", "l", "e", "r", ":", " ">>
                          \o Join(Prefix(candidate.skills, 10), << ",", " " >>) >>
                ELSE << >>)
            \o (IF exp_texts # << >>
                THEN << <<"D", "e", "n", "e", "y", "i", "m", ":", " ">>
                          \o Join(exp_texts, << ",", " " >>) >>
                ELSE << >>)
            \o (IF edu_texts # << >>
                THEN << <<"E", "U+011F", "i", "t", "i", "m", ":", " ">>
                          \o Join(edu_texts, << ",", " " >>) >>
                ELSE << >>)
        fallback_text == Join(text_parts, << ";", " " >>)
    IN  IF fallback_text # << >> THEN fallback_text
        ELSE <<"D", "e", "t", "a", "y", " ", "b", "i", "l", "g", "i", " ", "b", "u", "l", "u", "n", "a", "m", "a", "d", "U+0131">>

\* summary.strip() raises when summary is a truthy value that is no str
TextRaises(candidate) == candidate.summary.tag = "int"

\* CandidateText with the length taken of the untrimmed summary
CandidateTextUntrimmedLength(candidate) ==
    IF candidate.summary.tag = "str" /\ Len(candidate.summary.s) >= 10
    THEN candidate.summary.s
    ELSE CreateFallbackText(candidate)

\* The text create_index embeds for a candidate (lines 49-55).
CandidateText(candidate) ==
    IF candidate.summary.tag = "str" /\ Len(Strip(candidate.summary.s)) >= 10
    THEN candidate.summary.s
    ELSE CreateFallbackText(candidate)

-----------------------------------------------------------------------------
(* The matcher: self.index and self.candidates                             *)

\* self.index is None
NoIndex == [kind |-> "none", vecs |-> << >>]

\* self.index is an IndexFlatL2 holding vecs, in the order they were added
FlatIndex(vecs) == [kind |-> "flat", vecs |-> vecs]

\* The vector create_index adds for a candidate.  The vectors of the
\* candidates of the pool are tabulated once; the table holds the values of
\* the expression it stands for.
CandidateVectorTable == [ c \in Range(CandidatePool) |-> Embed(CandidateText(c)) ]

CandidateVector(c) ==
    IF c \in DOMAIN CandidateVectorTable THEN CandidateVectorTable[c]
    ELSE Embed(CandidateText(c))

BuildVectors(cands) == [ i \in 1..Len(cands) |-> CandidateVector(cands[i]) ]

\* Where an exception outside the candidate records can stop a build: in
\* model.encode (line 60), or after the new empty IndexFlatL2 was assigned to
\* self.index (lines 64-71).
BuildFaults == {"none", "encode", "add"}

\* CreateIndex without the check of lines 40-41
CreateIndexNoEmptyCheck(idx, old, new, fault) ==
    IF (\E i \in 1..Len(new) : TextRaises(new[i])) \/ fault = "encode"
    THEN [err |-> "BuildFailed", index |-> idx, candidates |-> new]
    ELSE IF fault = "add"
    THEN [err |-> "BuildFailed", index |-> FlatIndex(<< >>), candidates |-> new]
    ELSE [err |-> "ok", index |-> FlatIndex(BuildVectors(new)), candidates |-> new]

\* CreateIndex with the vectors added to the index the matcher holds, not to
\* a new one
CreateIndexAppending(idx, old, new, fault) ==
    IF new = << >>
    THEN [err |-> "EmptyCorpus", index |-> idx, candidates |-> old]
    ELSE IF (\E i \in 1..Len(new) : TextRaises(new[i])) \/ fault = "encode"
    THEN [err |-> "BuildFailed", index |-> idx, candidates |-> new]
    ELSE IF fault = "add"
    THEN [err |-> "BuildFailed", index |-> FlatIndex(idx.vecs), candidates |-> new]
    ELSE [err |-> "ok", index |-> FlatIndex(idx.vecs \o BuildVectors(new)), candidates |-> new]

\* create_index(candidates) on a matcher holding idx and old: the error it
\* raises ("ok" for none) and the index and candidate list it leaves.
CreateIndex(idx, old, new, fault) ==
    IF new = << >>
    THEN [err |-> "EmptyCorpus", index |-> idx, candidates |-> old]
    ELSE IF (\E i \in 1..Len(new) : TextRaises(new[i])) \/ fault = "encode"
    THEN [err |-> "BuildFailed", index |-> idx, candidates |-> new]
    ELSE IF fault = "add"
    THEN [err |-> "BuildFailed", index |-> FlatIndex(<< >>), candidates |-> new]
    ELSE [err |-> "ok", index |-> FlatIndex(BuildVectors(new)), candidates |-> new]

\* update_candidate: the first candidate with the id is replaced in the
\* stored list, then the index is rebuilt over the stored list.
UpdateCandidate(idx, old, candidate_id, new_candidate_data, fault) ==
    LET hits == { i \in 1..Len(old) : old[i].id = candidate_id }
        first == CHOOSE i \in hits : \A j \in hits : i <= j
        updated == IF hits = {} THEN old
                   ELSE [old EXCEPT ![first] = new_candidate_data]
        built == CreateIndex(idx, updated, updated, fault)
    IN  [err |-> IF built.err = "ok" THEN "ok" ELSE "UpdateFailed",
         index |-> built.index, candidates |-> built.candidates]

KeepOthers(cands, candidate_id) == SelectSeq(cands, LAMBDA c : c.id # candidate_id)

\* RemoveCandidate keeping the other candidates in the reverse of their
\* order
RemoveCandidateReversing(idx, old, candidate_id, fault) ==
    LET others == KeepOthers(old, candidate_id)
        kept == [ i \in 1..Len(others) |-> others[Len(others) + 1 - i] ]
        built == CreateIndex(idx, kept, kept, fault)
    IN  IF Len(kept) < Len(old)
        THEN IF kept # << >>
             THEN [err |-> IF built.err = "ok" THEN "ok" ELSE "RemoveFailed",
                   index |-> built.index, candidates |-> built.candidates]
             ELSE [err |-> "ok", index |-> NoIndex, candidates |-> kept]
        ELSE [err |-> "ok", index |-> idx, candidates |-> old]

\* RemoveCandidate leaving the index as it was when candidates were removed
RemoveCandidateNoRebuild(idx, old, candidate_id, fault) ==
    [err |-> "ok", index |-> idx, candidates |-> KeepOthers(old, candidate_id)]

\* RemoveCandidate rebuilding the index also when no candidate was removed
RemoveCandidateAlwaysRebuilds(idx, old, candidate_id, fault) ==
    LET kept == KeepOthers(old, candidate_id)
        built == CreateIndex(idx, kept, kept, fault)
    IN  IF kept # << >>
        THEN [err |-> IF built.err = "ok" THEN "ok" ELSE "RemoveFailed",
              index |-> built.index, candidates |-> built.candidates]
        ELSE [err |-> "ok", index |-> NoIndex, candidates |-> kept]

\* get_index_info(): no_index and 0 without an index, else ready and the
\* number of vectors of the index
GetIndexInfo(idx) ==
    IF idx.kind = "none"
    THEN [status |-> "no_index", total_candidates |-> 0]
    ELSE [status |-> "ready", total_candidates |-> Len(idx.vecs)]

\* remove_candidate: the candidates with the id leave the stored list; the
\* index is rebuilt over the rest, or dropped when nothing is left.
RemoveCandidate(idx, old, candidate_id, fault) ==
    LET kept == KeepOthers(old, candidate_id)
        built == CreateIndex(idx, kept, kept, fault)
    IN  IF Len(kept) < Len(old)
        THEN IF kept # << >>
             THEN [err |-> IF built.err = "ok" THEN "ok" ELSE "RemoveFailed",
                   index |-> built.index, candidates |-> built.candidates]
             ELSE [err |-> "ok", index |-> NoIndex, candidates |-> kept]
        ELSE [err |-> "ok", index |-> idx, candidates |-> old]

-----------------------------------------------------------------------------
(* The score and find_matches.  A distance is an integer; min_score is     *)
(* counted in thousandths of a percent, a returned match_percentage in     *)
(* hundredths of a percent.                                                *)

\* match_percentage < min_score on the unrounded 100 / (1 + distance)
BelowMinScore(distance, min_score) == 100 * 1000 < min_score * (1 + distance)

\* A percentage of the code is a double, (1 / (1 + distance)) * 100 of lines
\* 170-171; the model computes with the fraction num/den.  The two differ
\* only where the fraction lies half-way between two decimals: the double
\* lies above it, below it or on it, and round() and the format of the code
\* follow the double.  At each such fraction (1 + distance of 16, 80, 400,
\* 2000 for one decimal, of 32, 160, 800, 4000, 20000 for two) the double of
\* lines 170-171 lies on the side of the double nearest to the fraction.

\* the k with 2^k <= num/den < 2^(k+1), for num > 0
RECURSIVE FloorLog2(_, _)
FloorLog2(num, den) ==
    IF num >= 2 * den THEN FloorLog2(num, 2 * den) + 1
    ELSE IF num < den THEN FloorLog2(2 * num, den) - 1
    ELSE 0

\* r * 2^times modulo modulus
RECURSIVE Doubled(_, _, _)
Doubled(r, times, modulus) ==
    IF times = 0 THEN r ELSE Doubled((2 * r) % modulus, times - 1, modulus)

\* The place of the double nearest to num/den (53 bits, a tie to the even
\* one): 1 above the fraction, -1 below it, 0 on it.
FloatSide(num, den) ==
    IF num = 0 THEN 0
    ELSE LET shifted == Doubled(num % (2 * den), 52 - FloorLog2(num, den), 2 * den)
             rest == shifted % den
         IN  IF rest = 0 THEN 0
             ELSE IF 2 * rest < den THEN -1
             ELSE IF 2 * rest > den THEN 1
             ELSE IF shifted >= den THEN 1 ELSE -1

\* The double of num/den in units of 1/scale, rounded to the nearest unit:
\* at a tie of the fraction the double decides, and a double on the tie
\* goes to the even unit.
RoundedTo(scale, num, den) ==
    LET q == (scale * num) \div den
        r == (scale * num) % den
    IN  IF 2 * r < den THEN q
        ELSE IF 2 * r > den THEN q + 1
        ELSE IF FloatSide(num, den) > 0 THEN q + 1
        ELSE IF FloatSide(num, den) < 0 THEN q
        ELSE IF q % 2 = 0 THEN q ELSE q + 1

\* round(x, 2) of the double of num/den, in hundredths
RoundHundredths(num, den) == RoundedTo(100, num, den)

\* MatchPercentage with the percentage cut to two decimals, not rounded
MatchPercentageTruncated(distance) == (100 * 100) \div (1 + distance)

\* round(100 * (1 / (1 + distance)), 2), the match_percentage of a result
MatchPercentage(distance) == RoundHundredths(100, 1 + distance)

\* results.sort(key=..., reverse=True): a stable sort, descending by key
RECURSIVE InsertDesc(_, _)
InsertDesc(sorted, r) ==
    IF sorted = << >> THEN << r >>
    ELSE IF sorted[1].match_percentage >= r.match_percentage
         THEN << sorted[1] >> \o InsertDesc(Tail(sorted), r)
         ELSE << r >> \o sorted

\* SortDesc without reverse=True: the results are left in ascending order
RECURSIVE SortAsc(_)
SortAsc(results) ==
    IF results = << >> THEN << >>
    ELSE LET r == results[1]
             rest == SortAsc(Tail(results))
             before == SelectSeq(rest, LAMBDA x : x.match_percentage < r.match_percentage)
             after == SelectSeq(rest, LAMBDA x : x.match_percentage >= r.match_percentage)
         IN  before \o << r >> \o after

\* SortDesc by a sort that is not stable: a result goes before the results
\* of the same match_percentage
RECURSIVE SortDescTiesReversed(_)
SortDescTiesReversed(results) ==
    IF results = << >> THEN << >>
    ELSE LET r == results[Len(results)]
             rest == SortDescTiesReversed(SubSeq(results, 1, Len(results) - 1))
         IN  SelectSeq(rest, LAMBDA x : x.match_percentage > r.match_percentage)
                \o << r >>
                \o SelectSeq(rest, LAMBDA x : x.match_percentage <= r.match_percentage)

RECURSIVE SortDesc(_)
SortDesc(results) ==
    IF results = << >> THEN << >>
    ELSE InsertDesc(SortDesc(SubSeq(results, 1, Len(results) - 1)), results[Len(results)])

\* str(n) of a natural number
RECURSIVE IntToText(_)
IntToText(n) ==
    IF n < 10 THEN << DigitChars[n + 1] >>
    ELSE IntToText(n \div 10) \o << DigitChars[(n % 10) + 1] >>

\* f"{x:.1f}" of the double of num/den
FormatOneDecimal(num, den) ==
    LET tenths == RoundedTo(10, num, den)
    IN  IntToText(tenths \div 10) \o << "." >> \o IntToText(tenths % 10)

\* The positions of the entries that have one (line 289).
RECURSIVE Positions(_)
Positions(experience) ==
    IF experience = << >> THEN << >>
    ELSE (IF experience[1].position # << >> THEN << experience[1].position >> ELSE << >>)
         \o Positions(Tail(experience))

\* TRUE when a statement of the try block of _generate_explanation raises
ExplanationRaises(candidate) ==
    \/ candidate.cv_kind # "dict"
    \/ \E i \in 1..Min(2, Len(candidate.experience)) : candidate.experience[i].kind # "dict"

\* The label of lines 263-270 for the match percentage num/den.
TierLabel(num, den) ==
    IF num >= 80 * den THEN <<"U+00C7", "o", "k", " ", "y", "U+00FC", "k", "s", "e", "k", " ", "u", "y", "u", "m", "l", "u", "l", "u", "k">>
    ELSE IF num >= 60 * den THEN <<"Y", "U+00FC", "k", "s", "e", "k", " ", "u", "y", "u", "m", "l", "u", "l", "u", "k">>
    ELSE IF num >= 40 * den THEN <<"O", "r", "t", "a", " ", "s", "e", "v", "i", "y", "e", " ", "u", "y", "u", "m", "l", "u", "l", "u", "k">>
    ELSE <<"D", "U+00FC", "U+015F", "U+00FC", "k", " ", "u", "y", "u", "m", "l", "u", "l", "u", "k">>

\* GenerateExplanation with the thresholds of the labels taken strictly
GenerateExplanationStrictTiers(num, den, missing_skills, candidate) ==
    IF ExplanationRaises(candidate)
    THEN <<"E", "U+015F", "l", "e", "U+015F", "m", "e", " ", "o", "r", "a", "n", "U+0131", ":", " ", "%">> \o FormatOneDecimal(num, den)
    ELSE
    LET recent_positions == Positions(Prefix(candidate.experience, 2))
        label == IF num > 80 * den THEN <<"U+00C7", "o", "k", " ", "y", "U+00FC", "k", "s", "e", "k", " ", "u", "y", "u", "m", "l", "u", "l", "u", "k">>
                 ELSE IF num > 60 * den THEN <<"Y", "U+00FC", "k", "s", "e", "k", " ", "u", "y", "u", "m", "l", "u", "l", "u", "k">>
                 ELSE IF num > 40 * den THEN <<"O", "r", "t", "a", " ", "s", "e", "v", "i", "y", "e", " ", "u", "y", "u", "m", "l", "u", "l", "u", "k">>
                 ELSE <<"D", "U+00FC", "U+015F", "U+00FC", "k", " ", "u", "y", "u", "m", "l", "u", "l", "u", "k">>
        explanation_parts ==
            << label >>
            \o (IF candidate.names # << >>
                THEN << <<"A", "d", "a", "y", ":", " ">> \o candidate.names[1] >> ELSE << >>)
            \o (IF candidate.skills # << >>
                THEN << <<"A", "n", "a", " ", "b", "e", "c", "e", "r", "i", "l", "e", "r", ":", " ">> \o Join(Prefix(candidate.skills, 3), << ",", " " >>) >>
                ELSE << >>)
            \o (IF recent_positions # << >>
                THEN << <<"S", "o", "n", " ", "p", "o", "z", "i", "s", "y", "o", "n", "l", "a", "r", ":", " ">> \o Join(recent_positions, << ",", " " >>) >>
                ELSE << >>)
            \o (IF missing_skills # << >>
                THEN << <<"G", "e", "l", "i", "U+015F", "t", "i", "r", "i", "l", "e", "b", "i", "l", "i", "r", " ", "a", "l", "a", "n", "l", "a", "r", ":", " ">> \o Join(Prefix(missing_skills, 3), << ",", " " >>) >>
                ELSE << >>)
    IN  Join(explanation_parts, << " ", "|", " " >>)

\* _generate_explanation(match_percentage, missing_skills, candidate), the
\* match percentage being the fraction num/den.
GenerateExplanation(num, den, missing_skills, candidate) ==
    IF ExplanationRaises(candidate)
    THEN <<"E", "U+015F", "l", "e", "U+015F", "m", "e", " ", "o", "r", "a", "n", "U+0131", ":", " ", "%">> \o FormatOneDecimal(num, den)
    ELSE
    LET recent_positions == Positions(Prefix(candidate.experience, 2))
        explanation_parts ==
            << TierLabel(num, den) >>
            \o (IF candidate.names # << >>
                THEN << <<"A", "d", "a", "y", ":", " ">> \o candidate.names[1] >> ELSE << >>)
            \o (IF candidate.skills # << >>
                THEN << <<"A", "n", "a", " ", "b", "e", "c", "e", "r", "i", "l", "e", "r", ":", " ">> \o Join(Prefix(candidate.skills, 3), << ",", " " >>) >>
                ELSE << >>)
            \o (IF recent_positions # << >>
                THEN << <<"S", "o", "n", " ", "p", "o", "z", "i", "s", "y", "o", "n", "l", "a", "r", ":", " ">> \o Join(recent_positions, << ",", " " >>) >>
                ELSE << >>)
            \o (IF missing_skills # << >>
                THEN << <<"G", "e", "l", "i", "U+015F", "t", "i", "r", "i", "l", "e", "b", "i", "l", "i", "r", " ", "a", "l", "a", "n", "l", "a", "r", ":", " ">> \o Join(Prefix(missing_skills, 3), << ",", " " >>) >>
                ELSE << >>)
    IN  Join(explanation_parts, << " ", "|", " " >>)

\* The vector find_matches searches with and the missing skills it reports,
\* tabulated once for the queries and candidates of the pools.
QueryVectorTable == [ q \in Queries |-> Embed(CleanQuery(q)) ]

QueryVector(query) ==
    IF query \in DOMAIN QueryVectorTable THEN QueryVectorTable[query]
    ELSE Embed(CleanQuery(query))

MissingSkillsTable ==
    [ x \in Seeds \X Queries \X { c.skills : c \in Range(CandidatePool) } |->
        FindMissingSkills(x[1], x[2], x[3]) ]

MissingSkills(seed, query, candidate_skills) ==
    IF << seed, query, candidate_skills >> \in DOMAIN MissingSkillsTable
    THEN MissingSkillsTable[<< seed, query, candidate_skills >>]
    ELSE FindMissingSkills(seed, query, candidate_skills)

\* The loop of lines 164-195 over the hits of the search, in their order.
\* The place in a list of the Python index idx: an index below 0 counts
\* from the end.
PlaceOf(list, idx) == IF idx < 0 THEN Len(list) + idx + 1 ELSE idx + 1

RECURSIVE CollectResults(_, _, _, _, _)
CollectResults(hits, cands, seed, query, min_score) ==
    IF hits = << >> THEN << >>
    ELSE LET hit == hits[1]
             rest == CollectResults(Tail(hits), cands, seed, query, min_score)
             candidate == cands[PlaceOf(cands, hit.idx)]
         IN  IF hit.idx < Len(cands) /\ ~BelowMinScore(hit.distance, min_score)
             THEN << [ candidate_id |-> candidate.id,
                       match_percentage |-> MatchPercentage(hit.distance),
                       missing_skills |-> MissingSkills(seed, query, candidate.skills),
                       explanation |->
                           GenerateExplanation(100, 1 + hit.distance,
                               MissingSkills(seed, query, candidate.skills), candidate),
                       distance |-> hit.distance ] >> \o rest
             ELSE rest

\* TRUE when the loop raises on a hit it does not skip: the index is out of
\* the list (line 166), or the candidate's cv_data is None, so cv_data.get
\* fails (line 179).
CollectRaises(hits, cands, min_score) ==
    \E h \in 1..Len(hits) :
        /\ hits[h].idx < Len(cands)
        /\ \/ PlaceOf(cands, hits[h].idx) < 1
           \/ /\ ~BelowMinScore(hits[h].distance, min_score)
              /\ cands[PlaceOf(cands, hits[h].idx)].cv_kind # "dict"

\* find_matches(query, k, min_score): the error raised ("ok" for none) and
\* the list returned.
FindMatches(idx, cands, seed, query, k, min_score) ==
    IF idx.kind = "none"
    THEN [err |-> "IndexNotBuilt", results |-> << >>]
    ELSE IF query = << >> \/ Len(Strip(query)) < 3
    THEN [err |-> "InvalidQuery", results |-> << >>]
    ELSE
    LET query_vector == QueryVector(query)
        k_actual == Min(k, Len(idx.vecs))
        hits == IndexSearch(idx.vecs, query_vector, k_actual)
    IN  \* index.search asserts k > 0; the assertion error is caught by the
        \* handler of line 203 and raised again as a plain Exception
        IF k_actual <= 0 \/ CollectRaises(hits, cands, min_score)
        THEN [err |-> "SearchFailed", results |-> << >>]
        ELSE [err |-> "ok",
              results |-> SortDesc(CollectResults(hits, cands, seed, query, min_score))]

\* batch_search(queries, k): find_matches for each query in turn, with the
\* default min_score; the first failure fails the whole call.
BatchSearch(idx, cands, seed, queries, k) ==
    LET each == [ i \in 1..Len(queries) |-> FindMatches(idx, cands, seed, queries[i], k, 0) ]
    IN  IF idx.kind = "none"
        THEN [err |-> "IndexNotBuilt", results |-> << >>]
        ELSE IF \E i \in 1..Len(queries) : each[i].err # "ok"
        THEN [err |-> "BatchFailed", results |-> << >>]
        ELSE [err |-> "ok", results |-> [ i \in 1..Len(queries) |-> each[i].results ]]

-----------------------------------------------------------------------------
(* State.  index and candidates are self.index and self.candidates; disk   *)
(* is the file save_index writes and load_index reads; hashSeed is the     *)
(* hash seed of the process; everBuilt records that a create_index has     *)
(* completed since construction or since remove_candidate dropped the      *)
(* index.  The matcher is called by one caller at a time: last is the call *)
(* that has just returned, with its arguments and its outcome, until the   *)
(* caller has taken the outcome (NoCall then).                             *)

NoBlob == [present |-> FALSE, vecs |-> << >>]

NoCall ==
    [ op |-> "none", err |-> "ok", cands |-> << >>, repeated |-> FALSE, id |-> "",
      removed |-> 0,
      query |-> << >>, queries |-> << >>, k |-> 0, min_score |-> 0, results |-> << >> ]

InitMatcher ==
    /\ index = NoIndex
    /\ candidates = << >>
    /\ disk = NoBlob
    /\ everBuilt = FALSE
    /\ last = NoCall

\* sq_query, sq_skills and sq_result are the arguments and the result of a
\* call of _find_missing_skills on its own, sc_distance and sc_result those
\* of the score computation on its own.
NotCalled == [done |-> FALSE, value |-> << >>]

NoSkillCall ==
    /\ sq_query = << >>
    /\ sq_skills = << >>
    /\ sq_result = NotCalled

NoScoreCall ==
    /\ sc_distance = 0
    /\ sc_result = NotCalled

\* nz_candidate is the candidate of a call of the text selection of
\* create_index (nz_text) and of _create_fallback_text (nz_fallback) on
\* their own.
NoNormCall ==
    /\ nz_candidate = CandA
    /\ nz_text = [done |-> FALSE, err |-> "ok", value |-> << >>]
    /\ nz_fallback = NotCalled

\* sn_raw is an array model.encode returns, sn_added the array create_index
\* hands to index.add for it, sn_searched the vector find_matches hands to
\* index.search when sn_raw[1] is the embedding of the query.
NoSanCall ==
    /\ sn_raw = << >>
    /\ sn_added = NotCalled
    /\ sn_searched = NotCalled

\* ex_pct (in thousandths of a percent), ex_missing and ex_candidate are the
\* arguments and ex_result the result of a call of _generate_explanation on
\* its own.
NoExplCall ==
    /\ ex_pct = 0
    /\ ex_missing = << >>
    /\ ex_candidate = CandA
    /\ ex_result = NotCalled

\* other is a second VectorMatcher, of the same or of another process, that
\* reads the file save_index wrote: its index and its candidate list.
FreshMatcher == [index |-> NoIndex, candidates |-> << >>]

NoOtherCall == other = FreshMatcher

\* bt is a thread in create_index and qt a thread in find_matches on the
\* one matcher: the statement each is at and its local variables.  qt.obj
\* is the index object the query has read from self.index and not yet
\* used: "self" while self.index is still that object, "old" once line 63
\* has put another in its place, qt.held then being its vectors.
BuilderIdle == [pc |-> "idle", new |-> << >>]

QuerierIdle ==
    [ pc |-> "idle", query |-> << >>, k |-> 0, k_actual |-> 0, searched |-> << >>,
      hits |-> << >>, results |-> << >>, err |-> "ok",
      obj |-> "none", held |-> << >>,
      overlap |-> FALSE, saw_unfilled |-> FALSE, saw_other_list |-> FALSE ]

NoThreadCall == bt = BuilderIdle /\ qt = QuerierIdle

\* made is the outcome of the call of VectorMatcher() that gave the matcher:
\* the error it raised, whether it returned an object, whether the object
\* holds a model, and how many times it asked for the model.
NotConstructed == [called |-> FALSE, err |-> "ok", object |-> FALSE, model |-> FALSE, loads |-> 0]

\* __init__ neglecting the failure of the load: the object is returned
\* without a model
ConstructLenient(fault) ==
    [called |-> TRUE, err |-> "ok", object |-> TRUE, model |-> fault = "none", loads |-> 1]

\* VectorMatcher(): SentenceTransformer(model_name) and the dimension are
\* asked for once inside one try block; any exception is raised again and
\* no object is returned.  fault names the statement that raises.
Construct(fault) ==
    IF fault = "none"
    THEN [called |-> TRUE, err |-> "ok", object |-> TRUE, model |-> TRUE, loads |-> 1]
    ELSE [called |-> TRUE, err |-> "ModelLoadFailed", object |-> FALSE, model |-> FALSE,
          loads |-> 1]

ConstructFaults == { "none", "load", "dimension" }

NoCtorCall == made = Construct("none")

\* cq_query is a job text given to find_matches on a built index and
\* cq_result what the checks of lines 140-149 make of it: rejected, or the
\* text handed to model.encode.
NoCleanCall ==
    /\ cq_query = << >>
    /\ cq_result = [done |-> FALSE, rejected |-> FALSE, text |-> << >>]

\* rk_hits is what index.search returned to find_matches, rk_min_score the
\* min_score of the call and rk_result the list the call returns for them.
NoRankCall ==
    /\ rk_hits = << >>
    /\ rk_min_score = 0
    /\ rk_result = NotCalled

\* The service of main.py: db_cvs is the cv_metadata collection, db_matches
\* the matches collection and db_jobs the job_postings collection of the
\* database, db_inserted the number of documents the database has given an
\* _id, delivered the ids of
\* the matches whose e-mail the SMTP server took, rq the request that has
\* just been answered, until its response is taken.
NoRequest ==
    [ op |-> "none", status |-> "ok", job_id |-> "", held |-> << >>, listed |-> << >>,
      searched |-> [called |-> FALSE, index |-> NoIndex, candidates |-> << >>],
      created |-> << >>, after |-> << >>, response |-> << >>,
      notified |-> {}, sent |-> {}, marked |-> {} ]

NoSvcCall ==
    /\ db_cvs = << >>
    /\ db_matches = << >>
    /\ db_jobs = << >>
    /\ db_inserted = 0
    /\ delivered = {}
    /\ rq = NoRequest

InitProbes == NoSkillCall /\ NoScoreCall /\ NoNormCall /\ NoSanCall /\ NoExplCall /\ NoOtherCall /\ NoThreadCall /\ NoCtorCall /\ NoCleanCall /\ NoRankCall /\ NoSvcCall

\* no call of the functions of the other groups
NoSkillOthers == NoScoreCall /\ NoNormCall /\ NoSanCall /\ NoExplCall /\ NoOtherCall /\ NoThreadCall /\ NoCtorCall /\ NoCleanCall /\ NoRankCall /\ NoSvcCall
NoScoreOthers == NoSkillCall /\ NoNormCall /\ NoSanCall /\ NoExplCall /\ NoOtherCall /\ NoThreadCall /\ NoCtorCall /\ NoCleanCall /\ NoRankCall /\ NoSvcCall
NoNormOthers == NoSkillCall /\ NoScoreCall /\ NoSanCall /\ NoExplCall /\ NoOtherCall /\ NoThreadCall /\ NoCtorCall /\ NoCleanCall /\ NoRankCall /\ NoSvcCall
NoSanOthers == NoSkillCall /\ NoScoreCall /\ NoNormCall /\ NoExplCall /\ NoOtherCall /\ NoThreadCall /\ NoCtorCall /\ NoCleanCall /\ NoRankCall /\ NoSvcCall
NoExplOthers == NoSkillCall /\ NoScoreCall /\ NoNormCall /\ NoSanCall /\ NoOtherCall /\ NoThreadCall /\ NoCtorCall /\ NoCleanCall /\ NoRankCall /\ NoSvcCall
NoOtherOthers == NoSkillCall /\ NoScoreCall /\ NoNormCall /\ NoSanCall /\ NoExplCall /\ NoThreadCall /\ NoCtorCall /\ NoCleanCall /\ NoRankCall /\ NoSvcCall
NoThreadOthers == NoSkillCall /\ NoScoreCall /\ NoNormCall /\ NoSanCall /\ NoExplCall /\ NoOtherCall /\ NoCtorCall /\ NoCleanCall /\ NoRankCall /\ NoSvcCall
NoCtorOthers == NoSkillCall /\ NoScoreCall /\ NoNormCall /\ NoSanCall /\ NoExplCall /\ NoOtherCall /\ NoThreadCall /\ NoCleanCall /\ NoRankCall /\ NoSvcCall
NoCleanOthers == NoSkillCall /\ NoScoreCall /\ NoNormCall /\ NoSanCall /\ NoExplCall /\ NoOtherCall /\ NoThreadCall /\ NoCtorCall /\ NoRankCall /\ NoSvcCall
NoRankOthers == NoSkillCall /\ NoScoreCall /\ NoNormCall /\ NoSanCall /\ NoExplCall /\ NoOtherCall /\ NoThreadCall /\ NoCtorCall /\ NoCleanCall /\ NoSvcCall
NoSvcOthers == NoSkillCall /\ NoScoreCall /\ NoNormCall /\ NoSanCall /\ NoExplCall /\ NoOtherCall /\ NoThreadCall /\ NoCtorCall /\ NoCleanCall /\ NoRankCall







Init == InitMatcher /\ InitProbes /\ hashSeed \in Seeds

\* no outcome is waiting for the caller
Idle == last.op = "none"

\* the matcher holds what a completed create_index(new) leaves: a call of
\* create_index(new) now repeats that build (last.repeated records it)
BuiltFrom(idx, cands, new) ==
    /\ new # << >>
    /\ cands = new
    /\ idx = FlatIndex(BuildVectors(new))

create_index ==
    /\ Idle
    /\ \E new \in CandidateLists, fault \in BuildFaults :
           LET out == CreateIndex(index, candidates, new, fault)
           IN  /\ index' = out.index
               /\ candidates' = out.candidates
               /\ everBuilt' = (everBuilt \/ out.err = "ok")
               /\ last' = [NoCall EXCEPT !.op = "create_index", !.err = out.err, !.cands = new,
                                         !.repeated = BuiltFrom(index, candidates, new)]
               /\ UNCHANGED << disk, hashSeed, probeVars >>

update_candidate ==
    /\ Idle
    /\ \E candidate_id \in CandidateIds, new_candidate_data \in UpdateData, fault \in BuildFaults :
           LET out == UpdateCandidate(index, candidates, candidate_id, new_candidate_data, fault)
           IN  /\ index' = out.index
               /\ candidates' = out.candidates
               /\ everBuilt' = (everBuilt \/ out.err = "ok")
               /\ last' = [NoCall EXCEPT !.op = "update_candidate", !.err = out.err,
                                         !.id = candidate_id]
               /\ UNCHANGED << disk, hashSeed, probeVars >>

remove_candidate ==
    /\ Idle
    /\ \E candidate_id \in CandidateIds, fault \in BuildFaults :
           LET out == RemoveCandidate(index, candidates, candidate_id, fault)
               removed == Len(out.candidates) < Len(candidates)
           IN  /\ index' = out.index
               /\ candidates' = out.candidates
               /\ everBuilt' = IF removed /\ out.candidates = << >> THEN FALSE
                               ELSE IF removed /\ out.err = "ok" THEN TRUE
                               ELSE everBuilt
               /\ last' = [NoCall EXCEPT !.op = "remove_candidate", !.err = out.err,
                                         !.id = candidate_id,
                                         !.removed = Len(candidates) - Len(out.candidates)]
               /\ UNCHANGED << disk, hashSeed, probeVars >>

\* find_matches reordering the stored candidate list while it ranks: the
\* stored list is left reversed, the index as it was
find_matches_sorting_stored ==
    /\ Idle
    /\ \E query \in Queries, k \in KValues, min_score \in MinScores :
           LET out == FindMatches(index, candidates, hashSeed, query, k, min_score)
           IN  /\ last' = [NoCall EXCEPT !.op = "find_matches", !.err = out.err,
                                         !.query = query, !.k = k, !.min_score = min_score,
                                         !.results = out.results]
               /\ candidates' = [ i \in 1..Len(candidates) |-> candidates[Len(candidates) + 1 - i] ]
               /\ UNCHANGED << index, disk, everBuilt, hashSeed, probeVars >>

find_matches ==
    /\ Idle
    /\ \E query \in Queries, k \in KValues, min_score \in MinScores :
           LET out == FindMatches(index, candidates, hashSeed, query, k, min_score)
           IN  /\ last' = [NoCall EXCEPT !.op = "find_matches", !.err = out.err,
                                         !.query = query, !.k = k, !.min_score = min_score,
                                         !.results = out.results]
               /\ UNCHANGED << index, candidates, disk, everBuilt, hashSeed,
                               probeVars >>

batch_search ==
    /\ Idle
    /\ \E queries \in BatchInputs, k \in KValues :
           LET out == BatchSearch(index, candidates, hashSeed, queries, k)
           IN  /\ last' = [NoCall EXCEPT !.op = "batch_search", !.err = out.err,
                                         !.queries = queries, !.k = k,
                                         !.results = out.results]
               /\ UNCHANGED << index, candidates, disk, everBuilt, hashSeed,
                               probeVars >>

\* save_index(path): faiss.write_index of the index, or an error without one
save_index ==
    /\ Idle
    /\ disk' = IF index.kind = "flat" THEN [present |-> TRUE, vecs |-> index.vecs] ELSE disk
    /\ last' = [NoCall EXCEPT !.op = "save_index",
                              !.err = IF index.kind = "flat" THEN "ok" ELSE "SaveFailed"]
    /\ UNCHANGED << index, candidates, everBuilt, hashSeed, probeVars >>

\* load_index(path): self.index becomes what faiss.read_index returns;
\* self.candidates is not touched.  Reading a file that is not there raises.
load_index ==
    /\ Idle
    /\ index' = IF disk.present THEN FlatIndex(disk.vecs) ELSE index
    /\ last' = [NoCall EXCEPT !.op = "load_index",
                              !.err = IF disk.present THEN "ok" ELSE "LoadFailed"]
    /\ UNCHANGED << candidates, disk, everBuilt, hashSeed, probeVars >>

\* The caller takes the outcome of the call that has returned.
take_outcome ==
    /\ ~Idle
    /\ last' = NoCall
    /\ UNCHANGED << index, candidates, disk, everBuilt, hashSeed, probeVars >>

\* One matcher instance under any sequence of calls.
Next ==
    \/ create_index
    \/ update_candidate
    \/ remove_candidate
    \/ find_matches
    \/ batch_search
    \/ save_index
    \/ load_index
    \/ take_outcome

Spec == Init /\ [][Next]_vars

-----------------------------------------------------------------------------
(* _find_missing_skills on its own: any query text and skill list of the   *)
(* bounded sets, under any hash seed.                                      *)

InitSkills ==
    /\ InitMatcher
    /\ NoSkillOthers
    /\ sq_query \in SkillQueries
    /\ sq_skills \in SkillLists
    \* one seed for each order of the set of the call
    /\ hashSeed \in SeedsFor(Cardinality(QualifyingTerms(sq_query, sq_skills)))
    /\ sq_result = NotCalled

find_missing_skills ==
    /\ ~sq_result.done
    /\ sq_result' = [done |-> TRUE,
                     value |-> FindMissingSkills(hashSeed, sq_query, sq_skills)]
    /\ UNCHANGED << exceptSkillVars, sq_query, sq_skills >>

NextSkills == find_missing_skills

SpecSkills == InitSkills /\ [][NextSkills]_vars

-----------------------------------------------------------------------------
(* The score on its own: any distance up to MaxDistance.                   *)

InitScore ==
    /\ InitMatcher
    /\ NoScoreOthers
    /\ hashSeed \in Seeds
    /\ sc_distance \in 0..MaxDistance
    /\ sc_result = NotCalled

score ==
    /\ ~sc_result.done
    /\ sc_result' = [done |-> TRUE, value |-> MatchPercentage(sc_distance)]
    /\ UNCHANGED << exceptScoreVars, sc_distance >>

NextScore == score

SpecScore == InitScore /\ [][NextScore]_vars

-----------------------------------------------------------------------------
(* The text normaliser on its own: the text selection of create_index      *)
(* (lines 49-55) and _create_fallback_text, for one candidate record.      *)

\* The summaries of the candidates: absent, empty, shorter than 10
\* characters (also when padded to 10 and more), of 10 characters and more
\* (also padded), and a value that is no str.
NormSummaries ==
    { [tag |-> "none", s |-> << >>],
      [tag |-> "str", s |-> << >>],
      [tag |-> "str", s |-> <<"G", "o", " ", "d", "e", "v">>],
      [tag |-> "str", s |-> <<" ", " ", "G", "o", " ", "d", "e", "v", " ", " ", " ", " ">>],
      [tag |-> "str", s |-> <<"J", "a", "v", "a", ",", " ", "A", "W", "S">>],
      [tag |-> "str", s |-> <<"P", "y", "t", "h", "o", "n", " ", "d", "e", "v">>],
      [tag |-> "str", s |-> <<" ", "P", "y", "t", "h", "o", "n", " ", "d", "e", "v", "\n">>],
      [tag |-> "int", s |-> << >>] }

\* The cv_data of the candidates: nothing, names only, 11 skills, every
\* clause with more entries than the clause takes, entries without values,
\* an experience entry that is no dictionary among the first 3, one after
\* the first 3 (and an education entry after the first 2), cv_data None.
NormCvData ==
    { [ cv_kind |-> "dict",
        names |-> << >>,
        skills |-> << >>,
        experience |-> << >>,
        education |-> << >> ],
      [ cv_kind |-> "dict",
        names |-> << <<"D", "e", "n", "i", "z">>, <<"C", "a", "n">> >>,
        skills |-> << >>,
        experience |-> << >>,
        education |-> << >> ],
      [ cv_kind |-> "dict",
        names |-> << >>,
        skills |-> << <<"G", "o">>, <<"R", "u", "s", "t">>, <<"S", "Q", "L">>, <<"G", "i", "t">>, <<"A", "W", "S">>, <<"V", "u", "e">>, <<"P", "H", "P">>, <<"C", "S", "S">>, <<"L", "u", "a">>, <<"Z", "i", "g">>, <<"N", "i", "m">> >>,
        experience |-> << >>,
        education |-> << >> ],
      [ cv_kind |-> "dict",
        names |-> << <<"D", "e", "n", "i", "z">>, <<"C", "a", "n">> >>,
        skills |-> << <<"G", "o">>, <<"R", "u", "s", "t">>, <<"S", "Q", "L">>, <<"G", "i", "t">>, <<"A", "W", "S">>, <<"V", "u", "e">>, <<"P", "H", "P">>, <<"C", "S", "S">>, <<"L", "u", "a">>, <<"Z", "i", "g">>, <<"N", "i", "m">> >>,
        experience |-> << [kind |-> "dict", position |-> <<"E", "n", "g", "i", "n", "e", "e", "r">>, company |-> <<"A", "c", "m", "e">>], [kind |-> "dict", position |-> <<"L", "e", "a", "d">>, company |-> << >>], [kind |-> "dict", position |-> << >>, company |-> <<"I", "n", "i", "t", "e", "c", "h">>], [kind |-> "dict", position |-> <<"I", "n", "t", "e", "r", "n">>, company |-> <<"H", "o", "o", "l", "i">>] >>,
        education |-> << [kind |-> "dict", institution |-> <<"I", "T", "U">>, degree_type |-> <<"B", "S", "c">>], [kind |-> "dict", institution |-> <<"M", "E", "T", "U">>, degree_type |-> << >>], [kind |-> "dict", institution |-> <<"E", "g", "e">>, degree_type |-> <<"M", "S", "c">>] >> ],
      [ cv_kind |-> "dict",
        names |-> << >>,
        skills |-> << >>,
        experience |-> << [kind |-> "dict", position |-> << >>, company |-> << >>] >>,
        education |-> << [kind |-> "dict", institution |-> << >>, degree_type |-> << >>] >> ],
      [ cv_kind |-> "dict",
        names |-> << <<"D", "e", "n", "i", "z">> >>,
        skills |-> << <<"G", "o">>, <<"K", "u", "b", "e", "r", "n", "e", "t", "e", "s">> >>,
        experience |-> << [kind |-> "str", position |-> << >>, company |-> << >>] >>,
        education |-> << [kind |-> "dict", institution |-> <<"I", "T", "U">>, degree_type |-> <<"B", "S", "c">>] >> ],
      [ cv_kind |-> "dict",
        names |-> << <<"D", "e", "n", "i", "z">> >>,
        skills |-> << <<"G", "o">>, <<"K", "u", "b", "e", "r", "n", "e", "t", "e", "s">> >>,
        experience |-> << [kind |-> "dict", position |-> <<"E", "n", "g", "i", "n", "e", "e", "r">>, company |-> <<"A", "c", "m", "e">>], [kind |-> "dict", position |-> <<"L", "e", "a", "d">>, company |-> << >>], [kind |-> "dict", position |-> << >>, company |-> <<"I", "n", "i", "t", "e", "c", "h">>], [kind |-> "str", position |-> << >>, company |-> << >>] >>,
        education |-> << [kind |-> "dict", institution |-> <<"I", "T", "U">>, degree_type |-> <<"B", "S", "c">>], [kind |-> "dict", institution |-> <<"M", "E", "T", "U">>, degree_type |-> << >>], [kind |-> "str", institution |-> << >>, degree_type |-> << >>] >> ],
      [ cv_kind |-> "none",
        names |-> << <<"D", "e", "n", "i", "z">> >>,
        skills |-> << <<"G", "o">> >>,
        experience |-> << >>,
        education |-> << >> ] }

NormCandidates ==
    { [ id |-> "N", summary |-> s, cv_kind |-> d.cv_kind, names |-> d.names,
        skills |-> d.skills, experience |-> d.experience, education |-> d.education ] :
        s \in NormSummaries, d \in NormCvData }

\* lines 49-55 for one candidate: the text appended to texts, or the error
\* the statements raise
SelectText(candidate) ==
    IF TextRaises(candidate)
    THEN [err |-> "AttributeError", value |-> << >>]
    ELSE [err |-> "ok", value |-> CandidateText(candidate)]

InitNormalizer ==
    /\ InitMatcher
    /\ NoNormOthers
    /\ hashSeed \in Seeds
    /\ nz_candidate \in NormCandidates
    /\ nz_text = [done |-> FALSE, err |-> "ok", value |-> << >>]
    /\ nz_fallback = NotCalled

select_text ==
    /\ ~nz_text.done
    /\ LET out == SelectText(nz_candidate)
       IN  nz_text' = [done |-> TRUE, err |-> out.err, value |-> out.value]
    /\ UNCHANGED << exceptNormVars, nz_candidate, nz_fallback >>

create_fallback_text ==
    /\ ~nz_fallback.done
    /\ nz_fallback' = [done |-> TRUE, value |-> CreateFallbackText(nz_candidate)]
    /\ UNCHANGED << exceptNormVars, nz_candidate, nz_text >>

NextNormalizer == select_text \/ create_fallback_text

SpecNormalizer == InitNormalizer /\ [][NextNormalizer]_vars

-----------------------------------------------------------------------------
(* The NaN handling of create_index (lines 64-69) and find_matches (lines  *)
(* 152-154) on its own.  A component of a float32 vector is a number       *)
(* (kind "num"), NaN, +Inf or -Inf, or the largest or the smallest finite  *)
(* float32 (kinds "max" and "min"), which np.nan_to_num puts in the place  *)
(* of +Inf and -Inf.                                                       *)

Num(v) == [kind |-> "num", v |-> v]

NaN == [kind |-> "nan", v |-> 0]

PosInf == [kind |-> "inf", v |-> 0]

NegInf == [kind |-> "-inf", v |-> 0]

FloatMax == [kind |-> "max", v |-> 0]

FloatMin == [kind |-> "min", v |-> 0]

\* np.isnan(x)
IsNaN(x) == x.kind = "nan"

\* np.isfinite(x)
IsFinite(x) == x.kind \in {"num", "max", "min"}

\* np.nan_to_num(x) of one component: NaN becomes 0, +Inf the largest and
\* -Inf the smallest finite number of the type
NanToNum(x) ==
    IF x.kind = "nan" THEN Num(0)
    ELSE IF x.kind = "inf" THEN FloatMax
    ELSE IF x.kind = "-inf" THEN FloatMin
    ELSE x

\* lines 67-69: np.nan_to_num of the whole array when np.isnan finds a NaN
\* in it, the array as it is otherwise
SanitizeArray(array) ==
    IF \E i \in 1..Len(array) : \E j \in 1..Len(array[i]) : IsNaN(array[i][j])
    THEN [ i \in 1..Len(array) |-> [ j \in 1..Len(array[i]) |-> NanToNum(array[i][j]) ] ]
    ELSE array

\* lines 152-154: the same for the vector of the query
SanitizeVector(vector) ==
    IF \E j \in 1..Len(vector) : IsNaN(vector[j])
    THEN [ j \in 1..Len(vector) |-> NanToNum(vector[j]) ]
    ELSE vector

\* The values of a component of an embedding the model returns.
RawComponents == { Num(0), Num(1), NaN, PosInf, NegInf }

RawVectors == [ 1..Dimension -> RawComponents ]

\* The arrays model.encode returns for one text and for two texts.
RawArrays == { << u >> : u \in RawVectors } \cup { << u, v >> : u, v \in RawVectors }

InitSanitize ==
    /\ InitMatcher
    /\ NoSanOthers
    /\ hashSeed \in Seeds
    /\ sn_raw \in RawArrays
    /\ sn_added = NotCalled
    /\ sn_searched = NotCalled

\* create_index from the return of model.encode to index.add
add_embeddings ==
    /\ ~sn_added.done
    /\ sn_added' = [done |-> TRUE, value |-> SanitizeArray(sn_raw)]
    /\ UNCHANGED << exceptSanVars, sn_raw, sn_searched >>

\* find_matches from the return of model.encode to index.search
search_embedding ==
    /\ ~sn_searched.done
    /\ sn_searched' = [done |-> TRUE, value |-> SanitizeVector(sn_raw[1])]
    /\ UNCHANGED << exceptSanVars, sn_raw, sn_added >>

NextSanitize == add_embeddings \/ search_embedding

SpecSanitize == InitSanitize /\ [][NextSanitize]_vars

-----------------------------------------------------------------------------
(* _generate_explanation on its own.                                       *)

\* The match percentages, in thousandths of a percent: the thresholds of
\* the labels and their neighbours, the ends of the range, and values
\* between.
ExplPercentages ==
    { 0, 625, 7143, 39999, 40000, 40001, 59999, 60000, 79960, 79999, 80000, 100000 }

ExplMissing ==
    { << >>,
      << <<"P", "y", "t", "h", "o", "n">> >>,
      << <<"P", "y", "t", "h", "o", "n">>, <<"A", "w", "s">>, <<"S", "q", "l">>, <<"G", "i", "t">> >> }

\* The candidates: the shapes of cv_data of the text normaliser.
ExplCandidates == { c \in NormCandidates : c.summary.tag = "none" }

InitExplain ==
    /\ InitMatcher
    /\ NoExplOthers
    /\ hashSeed \in Seeds
    /\ ex_pct \in ExplPercentages
    /\ ex_missing \in ExplMissing
    /\ ex_candidate \in ExplCandidates
    /\ ex_result = NotCalled

generate_explanation ==
    /\ ~ex_result.done
    /\ ex_result' = [done |-> TRUE,
                     value |-> GenerateExplanation(ex_pct, 1000, ex_missing, ex_candidate)]
    /\ UNCHANGED << exceptExplVars, ex_pct, ex_missing, ex_candidate >>

NextExplain == generate_explanation

SpecExplain == InitExplain /\ [][NextExplain]_vars

-----------------------------------------------------------------------------
(* Two matchers and the file of save_index: the first matcher is built,    *)
(* saved, loaded and queried; the second, constructed and never built,     *)
(* loads the file and is queried.                                          *)

other_load_index ==
    /\ Idle
    /\ other' = [other EXCEPT !.index = IF disk.present THEN FlatIndex(disk.vecs) ELSE @]
    /\ last' = [NoCall EXCEPT !.op = "other_load_index",
                              !.err = IF disk.present THEN "ok" ELSE "LoadFailed"]
    /\ UNCHANGED << index, candidates, disk, everBuilt, hashSeed, probesButOther >>

other_find_matches ==
    /\ Idle
    /\ \E query \in Queries, k \in KValues, min_score \in MinScores :
           LET out == FindMatches(other.index, other.candidates, hashSeed, query, k, min_score)
           IN  /\ last' = [NoCall EXCEPT !.op = "other_find_matches", !.err = out.err,
                                         !.query = query, !.k = k, !.min_score = min_score,
                                         !.results = out.results]
               /\ UNCHANGED << index, candidates, disk, everBuilt, hashSeed, probeVars >>

NextRoundTrip ==
    \/ create_index
    \/ find_matches
    \/ save_index
    \/ load_index
    \/ other_load_index
    \/ other_find_matches
    \/ take_outcome

SpecRoundTrip == Init /\ [][NextRoundTrip]_vars

-----------------------------------------------------------------------------
(* create_index and find_matches called on one matcher by two threads.     *)
(* The class takes no lock, so the statements of the two calls interleave: *)
(* a step is the statements of a call up to and with its next read or      *)
(* write of self.index or self.candidates, or its next use of the index    *)
(* object it has read, which index.add of the other thread changes in      *)
(* place.  qt.overlap records that the    *)
(* query made a read while a create_index was between its first and its    *)
(* last statement, qt.saw_unfilled that it handed a k to an index holding   *)
(* fewer vectors, qt.saw_other_list that it read a candidate off a list     *)
(* the index it searched was not built from.                               *)

Building == bt.pc # "idle"

\* lines 40-44: the check of the list, then self.candidates = candidates
build_begin ==
    /\ bt.pc = "idle"
    /\ \E new \in CandidateLists \ { << >> } :
           /\ candidates' = new
           /\ bt' = [pc |-> "embed", new |-> new]
    /\ UNCHANGED << index, disk, everBuilt, last, hashSeed, probesButThread, qt >>

\* lines 47-60: the texts and their embeddings; an exception ends the call
build_embed ==
    /\ bt.pc = "embed"
    /\ bt' = IF \E i \in 1..Len(bt.new) : TextRaises(bt.new[i])
             THEN BuilderIdle
             ELSE [bt EXCEPT !.pc = "new_index"]
    /\ UNCHANGED << matcherVars, hashSeed, probesButThread, qt >>

\* line 63: self.index = faiss.IndexFlatL2(self.dimension).  An object the
\* query has read from self.index is no longer the index of the matcher
\* and keeps its vectors.
build_new_index ==
    /\ bt.pc = "new_index"
    /\ index' = FlatIndex(<< >>)
    /\ bt' = [bt EXCEPT !.pc = "add"]
    /\ qt' = IF qt.obj = "self" THEN [qt EXCEPT !.obj = "old", !.held = index.vecs] ELSE qt
    /\ UNCHANGED << candidates, disk, everBuilt, last, hashSeed, probesButThread >>

\* lines 64-72: self.index.add(embeddings_array), and the return
build_add ==
    /\ bt.pc = "add"
    /\ index' = FlatIndex(index.vecs \o BuildVectors(bt.new))
    /\ bt' = BuilderIdle
    /\ UNCHANGED << candidates, disk, everBuilt, last, hashSeed, probesButThread, qt >>

\* lines 137-141: the checks of self.index and of the query
query_begin ==
    /\ qt.pc = "idle"
    /\ \E query \in Queries, k \in KValues :
           qt' = [QuerierIdle EXCEPT
                     !.query = query, !.k = k, !.overlap = Building,
                     !.pc = IF index.kind = "none" \/ Len(Strip(query)) < 3
                            THEN "done" ELSE "ntotal",
                     !.err = IF index.kind = "none" THEN "IndexNotBuilt"
                             ELSE IF Len(Strip(query)) < 3 THEN "InvalidQuery"
                             ELSE "ok"]
    /\ UNCHANGED << matcherVars, hashSeed, exceptThreadVars, bt >>

\* the vectors of the index object the query has read
HeldVectors == IF qt.obj = "old" THEN qt.held ELSE index.vecs

\* lines 145-157: the query is cleaned and embedded, then self.index is
\* read for its ntotal
query_ntotal_index ==
    /\ qt.pc = "ntotal"
    /\ qt' = [qt EXCEPT !.pc = "ntotal_of", !.obj = "self", !.overlap = @ \/ Building]
    /\ UNCHANGED << matcherVars, hashSeed, exceptThreadVars, bt >>

\* line 157: k_actual = min(k, ntotal) with the ntotal of that object
query_ntotal ==
    /\ qt.pc = "ntotal_of"
    /\ qt' = [qt EXCEPT !.pc = "search", !.k_actual = Min(qt.k, Len(HeldVectors)),
                        !.obj = "none", !.held = << >>,
                        !.overlap = @ \/ Building]
    /\ UNCHANGED << matcherVars, hashSeed, exceptThreadVars, bt >>

\* line 158: self.index is read for the search, and the arguments of
\* line 159 are made
query_search_index ==
    /\ qt.pc = "search"
    /\ qt' = [qt EXCEPT !.pc = "call", !.obj = "self", !.overlap = @ \/ Building]
    /\ UNCHANGED << matcherVars, hashSeed, exceptThreadVars, bt >>

\* lines 158-160: search(query_vector, k_actual) is called on that object
query_search ==
    /\ qt.pc = "call"
    /\ qt' = IF qt.k_actual <= 0
             THEN [qt EXCEPT !.pc = "done", !.err = "SearchFailed",
                             !.obj = "none", !.held = << >>,
                             !.overlap = @ \/ Building]
             ELSE [qt EXCEPT !.pc = "loop", !.searched = HeldVectors,
                             !.hits = PaddedSearch(HeldVectors, QueryVector(qt.query), qt.k_actual),
                             !.obj = "none", !.held = << >>,
                             !.overlap = @ \/ Building,
                             !.saw_unfilled = Len(HeldVectors) < qt.k_actual]
    /\ UNCHANGED << matcherVars, hashSeed, exceptThreadVars, bt >>

\* lines 164-165, once round the loop: len(self.candidates) is read for one
\* hit, which is left out when its index is not below it
query_loop ==
    /\ qt.pc = "loop"
    /\ qt.hits # << >>
    /\ qt' = IF qt.hits[1].idx < Len(candidates)
             THEN [qt EXCEPT !.pc = "read",
                             !.overlap = @ \/ Building,
                             !.saw_other_list = @ \/ qt.searched # BuildVectors(candidates)]
             ELSE [qt EXCEPT !.hits = Tail(@),
                             !.overlap = @ \/ Building,
                             !.saw_other_list = @ \/ qt.searched # BuildVectors(candidates)]
    /\ UNCHANGED << matcherVars, hashSeed, exceptThreadVars, bt >>

\* lines 166-195: self.candidates is read again, for the candidate of the
\* hit; the index is out of the list (IndexError) when the list has become
\* shorter since line 165
query_read ==
    /\ qt.pc = "read"
    /\ LET hit == << qt.hits[1] >>
           place == PlaceOf(candidates, hit[1].idx)
       IN  qt' = IF place < 1 \/ place > Len(candidates) \/ CollectRaises(hit, candidates, 0)
                 THEN [qt EXCEPT !.pc = "done", !.err = "SearchFailed", !.results = << >>,
                                 !.overlap = @ \/ Building,
                                 !.saw_other_list = @ \/ qt.searched # BuildVectors(candidates)]
                 ELSE [qt EXCEPT !.pc = "loop", !.hits = Tail(@),
                                 !.results = @ \o CollectResults(hit, candidates, hashSeed, qt.query, 0),
                                 !.overlap = @ \/ Building,
                                 !.saw_other_list = @ \/ qt.searched # BuildVectors(candidates)]
    /\ UNCHANGED << matcherVars, hashSeed, exceptThreadVars, bt >>

\* lines 198-201: the sort and the return
query_return ==
    /\ qt.pc = "loop"
    /\ qt.hits = << >>
    /\ qt' = [qt EXCEPT !.pc = "done", !.results = SortDesc(@)]
    /\ UNCHANGED << matcherVars, hashSeed, exceptThreadVars, bt >>

\* the caller of find_matches takes the outcome
query_taken ==
    /\ qt.pc = "done"
    /\ qt' = QuerierIdle
    /\ UNCHANGED << matcherVars, hashSeed, exceptThreadVars, bt >>

NextThreads ==
    \/ build_begin
    \/ build_embed
    \/ build_new_index
    \/ build_add
    \/ query_begin
    \/ query_ntotal_index
    \/ query_ntotal
    \/ query_search_index
    \/ query_search
    \/ query_loop
    \/ query_read
    \/ query_return
    \/ query_taken

SpecThreads == Init /\ [][NextThreads]_vars

-----------------------------------------------------------------------------
(* Construction.  The matcher starts not constructed; VectorMatcher() is   *)
(* called until it returns an object (the caller's choice, the constructor *)
(* itself asks for the model once), and the methods are called on the      *)
(* object only.                                                            *)

InitConstruct ==
    /\ InitMatcher
    /\ NoCtorOthers
    /\ made = NotConstructed
    /\ hashSeed \in Seeds

construct ==
    /\ ~made.object
    /\ \E fault \in ConstructFaults : made' = Construct(fault)
    /\ index' = NoIndex
    /\ candidates' = << >>
    /\ UNCHANGED << disk, everBuilt, last, hashSeed, probesButCtor >>

constructed_create_index == made.object /\ create_index

constructed_find_matches == made.object /\ find_matches

constructed_take_outcome == made.object /\ take_outcome

NextConstruct ==
    \/ construct
    \/ constructed_create_index
    \/ constructed_find_matches
    \/ constructed_take_outcome

SpecConstruct == InitConstruct /\ [][NextConstruct]_vars

-----------------------------------------------------------------------------
(* The query text of find_matches on its own: the check of line 140 and    *)
(* _clean_query, for every job text over a few characters.                 *)

CleanChars == { "a", " ", "!", "<", ">" }

MaxJobText == 4

JobTexts == SeqsUpTo(CleanChars, MaxJobText)

\* lines 140-149: the text model.encode is called with, unless the job text
\* is rejected
EncodedQuery(query) ==
    IF query = << >> \/ Len(Strip(query)) < 3
    THEN [done |-> TRUE, rejected |-> TRUE, text |-> << >>]
    ELSE [done |-> TRUE, rejected |-> FALSE, text |-> CleanQuery(query)]

InitCleanQuery == InitMatcher /\ NoCleanOthers /\ NoCleanCall /\ hashSeed \in Seeds

clean_query ==
    /\ \E query \in JobTexts :
           /\ cq_query' = query
           /\ cq_result' = EncodedQuery(query)
    /\ UNCHANGED exceptCleanVars

NextCleanQuery == clean_query

SpecCleanQuery == InitCleanQuery /\ [][NextCleanQuery]_vars

-----------------------------------------------------------------------------
(* The result loop and the sort of find_matches on their own (lines        *)
(* 164-198), for the lists of hits index.search can return over three      *)
(* stored candidates: distances in ascending order, among them distances   *)
(* whose percentages differ and round to the same two decimals.            *)

RankCandidates == << CandA, CandC, CandD >>

RankDistances == { 0, 13, 119, 120, 121, 199, 200 }

RankMinScores == { 0, 830 }

\* the lists index.search returns: positions of stored candidates, no
\* position twice, nearest first
RankHits ==
    { h \in SeqsUpTo([distance : RankDistances, idx : 0..(Len(RankCandidates) - 1)],
                     Len(RankCandidates)) :
        /\ \A i, j \in 1..Len(h) : i < j => h[i].distance <= h[j].distance
        /\ \A i, j \in 1..Len(h) : i # j => h[i].idx # h[j].idx }

InitRanking == InitMatcher /\ NoRankOthers /\ NoRankCall /\ hashSeed \in Seeds

rank_results ==
    /\ ~rk_result.done
    /\ \E hits \in RankHits, min_score \in RankMinScores :
           /\ rk_hits' = hits
           /\ rk_min_score' = min_score
           /\ rk_result' =
                  [done |-> TRUE,
                   value |-> SortDesc(CollectResults(hits, RankCandidates, hashSeed,
                                                     QueryPool[1], min_score))]
    /\ UNCHANGED exceptRankVars

\* the caller takes the list
rank_taken ==
    /\ rk_result.done
    /\ rk_hits' = << >>
    /\ rk_min_score' = 0
    /\ rk_result' = NotCalled
    /\ UNCHANGED exceptRankVars

NextRanking == rank_results \/ rank_taken

SpecRanking == InitRanking /\ [][NextRanking]_vars

-----------------------------------------------------------------------------
(* Removal from longer lists.  A matcher is built over lists of up to      *)
(* MaxRemoveCands candidates, a candidate among them more than once or     *)
(* not at all, and candidates are removed from it, so that a removal       *)
(* leaves several candidates whose order can be told.                      *)

\* the longest candidate list a candidate is removed from
MaxRemoveCands == 3

\* The lists create_index is called with before a removal.
RemoveLists == SeqsUpTo({ CandA, CandB, CandC }, MaxRemoveCands)

\* create_index(candidates) with a list of RemoveLists
remove_create_index ==
    /\ Idle
    /\ \E new \in RemoveLists, fault \in BuildFaults :
           LET out == CreateIndex(index, candidates, new, fault)
           IN  /\ index' = out.index
               /\ candidates' = out.candidates
               /\ everBuilt' = (everBuilt \/ out.err = "ok")
               /\ last' = [NoCall EXCEPT !.op = "create_index", !.err = out.err, !.cands = new,
                                         !.repeated = BuiltFrom(index, candidates, new)]
               /\ UNCHANGED << disk, hashSeed, probeVars >>

\* No call here reads the order of a set, so one process is looked at.
InitRemove == InitMatcher /\ InitProbes /\ hashSeed = 0

NextRemove ==
    \/ remove_create_index
    \/ remove_candidate
    \/ take_outcome

SpecRemove == InitRemove /\ [][NextRemove]_vars

-----------------------------------------------------------------------------
(* The service (src/main.py).  Every handler is a coroutine that awaits     *)
(* nothing between its first and its last use of the matcher and of the    *)
(* database, and the application runs them on one event loop: a request is *)
(* one step.  The matcher of the service is index and candidates.          *)

\* The values of _id, in the order the database gives them to the documents
\* it inserts; no document has the _id "o0".
ObjectIds == << "o1", "o2", "o3", "o4", "o5", "o6", "o7", "o8" >>

\* The number of documents inserted at most in the model.
MaxInserted == 5

\* The number of job postings held at most in the model.
MaxJobs == 1

\* The records save_cv_metadata is given (lines 50-66): cv_data, and in it
\* the e-mail address of contact_info, << >> for none.  The record gets its
\* _id when it is inserted.
DbPool ==
    { [email |-> <<"a", "@", "x", ".", "o", "r", "g">>] @@ CandA,
      [email |-> << >>] @@ CandD,
      [email |-> << >>] @@ CandE }

\* the ids of the documents of a collection
IdsOf(collection) == { collection[i].id : i \in 1..Len(collection) }

\* the ids a request can name: those the database has given, and one it
\* has not
RequestIds(inserted) == { ObjectIds[i] : i \in 1..inserted } \cup { "o0" }

\* get_job_posting and get_cv: the documents with the id, as a list
Found(collection, id) == SelectSeq(collection, LAMBDA d : d.id = id)

\* lines 217-230: a statement of the preparation of a summary raises
PrepareRaises(candidate) ==
    \/ candidate.cv_kind # "dict"
    \/ /\ candidate.summary.tag = "none" \/ candidate.summary = [tag |-> "str", s |-> << >>]
       /\ \/ \E i \in 1..Len(candidate.experience) : candidate.experience[i].kind # "dict"
          \/ \E i \in 1..Len(candidate.education) : candidate.education[i].kind # "dict"

\* lines 216-240: candidate["summary"] is the summary of cv_data, or a text
\* made of the skills, the positions and the institutions when cv_data has
\* none.
Prepare(candidate) ==
    IF ~(candidate.summary.tag = "none" \/ candidate.summary = [tag |-> "str", s |-> << >>])
    THEN candidate
    ELSE
    LET exp_titles == SelectSeq([ i \in 1..Len(candidate.experience) |->
                                    candidate.experience[i].position ],
                                LAMBDA t : t # << >>)
        edu_info == SelectSeq([ i \in 1..Len(candidate.education) |->
                                  candidate.education[i].institution ],
                              LAMBDA t : t # << >>)
        summary_parts ==
            (IF candidate.skills # << >>
             THEN << <<"B", "e", "c", "e", "r", "i", "l", "e", "r", ":", " ">>
                       \o Join(Prefix(candidate.skills, 5), << ",", " " >>) >>
             ELSE << >>)
            \o (IF exp_titles # << >>
                THEN << <<"D", "e", "n", "e", "y", "i", "m", ":", " ">>
                          \o Join(Prefix(exp_titles, 3), << ",", " " >>) >>
                ELSE << >>)
            \o (IF edu_info # << >>
                THEN << <<"E", "U+011F", "i", "t", "i", "m", ":", " ">>
                          \o Join(Prefix(edu_info, 2), << ",", " " >>) >>
                ELSE << >>)
        summary == IF summary_parts # << >> THEN Join(summary_parts, << ";", " " >>)
                   ELSE <<"D", "e", "t", "a", "y", " ", "b", "i", "l", "g", "i", " ", "b", "u", "l", "u", "n", "a", "m", "a", "d", "U+0131">>
    IN  [candidate EXCEPT !.summary = [tag |-> "str", s |-> summary]]

\* store_match: the record the matches collection gets for a result
MatchRecord(id, job_id, match) ==
    [ id |-> id, job_id |-> job_id, candidate_id |-> match.candidate_id,
      match_percentage |-> match.match_percentage,
      missing_skills |-> match.missing_skills, explanation |-> match.explanation,
      notification_sent |-> FALSE ]

\* lines 252-259: each result is stored and gets the id of its record; a
\* result whose store raises is left out.  store_fault is the place of the
\* result whose store raises (0: none).  stored is the matches collection
\* and inserted the number of ids given, after the results as the loop
\* leaves them, saved the list of the response.
RECURSIVE StoreMatches(_, _, _, _, _, _)
StoreMatches(matches, place, job_id, stored, inserted, store_fault) ==
    IF place > Len(matches)
    THEN [stored |-> stored, inserted |-> inserted, after |-> << >>, saved |-> << >>]
    ELSE IF place = store_fault
    THEN LET rest == StoreMatches(matches, place + 1, job_id, stored, inserted, store_fault)
         IN  [rest EXCEPT !.after = << matches[place] >> \o @]
    ELSE LET match_id == ObjectIds[inserted + 1]
             match == [match_id |-> match_id] @@ matches[place]
             rest == StoreMatches(matches, place + 1, job_id,
                                  Append(stored, MatchRecord(match_id, job_id, matches[place])),
                                  inserted + 1, store_fault)
         IN  [rest EXCEPT !.after = << match >> \o @, !.saved = << match >> \o @]

\* what a request leaves when it ends before the matcher is used
Unanswered(status, idx, cands, stored, inserted) ==
    [ status |-> status, index |-> idx, candidates |-> cands, listed |-> << >>,
      searched |-> NoRequest.searched, created |-> << >>, after |-> << >>,
      response |-> << >>, stored |-> stored, inserted |-> inserted ]

\* the outcome of a request that has searched: found is what find_matches
\* gave, kept what the store loop made of it
Answered(listed, built, found, kept, stored, inserted) ==
    [ status |-> IF found.err = "ok" THEN "ok" ELSE "error",
      index |-> built.index, candidates |-> built.candidates, listed |-> listed,
      searched |-> [called |-> TRUE, index |-> built.index,
                    candidates |-> built.candidates],
      created |-> found.results,
      after |-> IF found.err = "ok" THEN kept.after ELSE << >>,
      response |-> IF found.err = "ok" THEN kept.saved ELSE << >>,
      stored |-> IF found.err = "ok" THEN kept.stored ELSE stored,
      inserted |-> IF found.err = "ok" THEN kept.inserted ELSE inserted ]

\* match_candidates building the index only when the matcher holds none
MatchCandidatesReusing(idx, cands, seed, job_id, jobs, cvs, stored, inserted, fault, store_fault) ==
    IF Found(jobs, job_id) = << >> THEN Unanswered("not_found", idx, cands, stored, inserted)
    ELSE IF cvs = << >> THEN Unanswered("no_candidates", idx, cands, stored, inserted)
    ELSE IF \E i \in 1..Len(cvs) : PrepareRaises(cvs[i])
    THEN Unanswered("error", idx, cands, stored, inserted)
    ELSE
    LET listed == [ i \in 1..Len(cvs) |-> Prepare(cvs[i]) ]
        built == IF idx.kind = "flat"
                 THEN [err |-> "ok", index |-> idx, candidates |-> cands]
                 ELSE CreateIndex(idx, cands, listed, fault)
        found == FindMatches(built.index, built.candidates, seed,
                             JobText(Found(jobs, job_id)[1]), Min(10, Len(listed)), 0)
        kept == StoreMatches(found.results, 1, job_id, stored, inserted, store_fault)
    IN  IF built.err # "ok"
        THEN [Unanswered("error", built.index, built.candidates, stored, inserted)
                 EXCEPT !.listed = listed]
        ELSE Answered(listed, built, found, kept, stored, inserted)

\* match_candidates(job_id) (lines 198-277) with jobs in the job_postings
\* collection, cvs in the cv_metadata collection and stored in the matches
\* collection, on the matcher holding idx and cands: the status of the
\* response, what the matcher holds after it, the list given to
\* create_index, the index and the list find_matches worked on, the results
\* as find_matches created them and as the store loop leaves them, the list
\* of the response, the matches collection and the number of ids given.
MatchCandidates(idx, cands, seed, job_id, jobs, cvs, stored, inserted, fault, store_fault) ==
    IF Found(jobs, job_id) = << >> THEN Unanswered("not_found", idx, cands, stored, inserted)
    ELSE IF cvs = << >> THEN Unanswered("no_candidates", idx, cands, stored, inserted)
    ELSE IF \E i \in 1..Len(cvs) : PrepareRaises(cvs[i])
    THEN Unanswered("error", idx, cands, stored, inserted)
    ELSE
    LET listed == [ i \in 1..Len(cvs) |-> Prepare(cvs[i]) ]
        built == CreateIndex(idx, cands, listed, fault)
        found == FindMatches(built.index, built.candidates, seed,
                             JobText(Found(jobs, job_id)[1]), Min(10, Len(listed)), 0)
        kept == StoreMatches(found.results, 1, job_id, stored, inserted, store_fault)
    IN  IF built.err # "ok"
        THEN [Unanswered("error", built.index, built.candidates, stored, inserted)
                 EXCEPT !.listed = listed]
        ELSE Answered(listed, built, found, kept, stored, inserted)

StoreFaults == 0..1

\* no response is waiting
NoPending == rq.op = "none"

\* POST /upload-cv: the record of a parsed CV is added to cv_metadata under
\* a new _id
upload_cv ==
    /\ NoPending
    /\ Len(db_cvs) < MaxCands
    /\ db_inserted < MaxInserted
    /\ \E c \in DbPool :
           db_cvs' = Append(db_cvs, [c EXCEPT !.id = ObjectIds[db_inserted + 1]])
    /\ db_inserted' = db_inserted + 1
    /\ UNCHANGED << matcherVars, hashSeed, probesButSvc, db_matches, db_jobs, delivered, rq >>

\* DELETE /candidates/{candidate_id} (lines 415-442) for a candidate of
\* cv_metadata
delete_candidate ==
    /\ NoPending
    /\ \E candidate_id \in IdsOf(db_cvs) :
           db_cvs' = SelectSeq(db_cvs, LAMBDA c : c.id # candidate_id)
    /\ UNCHANGED << matcherVars, hashSeed, probesButSvc, db_matches, db_jobs, db_inserted,
                    delivered, rq >>

\* POST /job-posting (lines 149-170): a posting whose title or company is
\* blank or that has no requirements is refused; another is stored under
\* a new _id
create_job_posting ==
    /\ NoPending
    /\ Len(db_jobs) < MaxJobs
    /\ db_inserted < MaxInserted
    /\ \E job \in JobPool :
           /\ Strip(job.title) # << >>
           /\ Strip(job.company) # << >>
           /\ job.requirements # << >>
           /\ db_jobs' = Append(db_jobs, [id |-> ObjectIds[db_inserted + 1],
                                          matching_parameters |-> "none"] @@ job)
    /\ db_inserted' = db_inserted + 1
    /\ UNCHANGED << matcherVars, hashSeed, probesButSvc, db_cvs, db_matches, delivered, rq >>

\* PUT /job-postings/{job_id}/parameters (lines 291-303) for a posting of
\* job_postings
update_match_parameters ==
    /\ NoPending
    /\ \E i \in 1..Len(db_jobs) :
           db_jobs' = [db_jobs EXCEPT ![i].matching_parameters = "set"]
    /\ UNCHANGED << matcherVars, hashSeed, probesButSvc, db_cvs, db_matches, db_inserted,
                    delivered, rq >>

\* DELETE /job-postings/{job_id} (lines 444-469) for a posting of
\* job_postings: its matches are deleted, then the posting
delete_job_posting ==
    /\ NoPending
    /\ \E job_id \in IdsOf(db_jobs) :
           /\ db_matches' = SelectSeq(db_matches, LAMBDA m : m.job_id # job_id)
           /\ db_jobs' = SelectSeq(db_jobs, LAMBDA j : j.id # job_id)
    /\ UNCHANGED << matcherVars, hashSeed, probesButSvc, db_cvs, db_inserted, delivered, rq >>

\* POST /match-candidates/{job_id}
match_candidates ==
    /\ NoPending
    /\ db_inserted + Len(db_cvs) <= MaxInserted
    /\ \E job_id \in RequestIds(db_inserted), fault \in BuildFaults, store_fault \in StoreFaults :
           \E out \in { MatchCandidates(index, candidates, hashSeed, job_id, db_jobs, db_cvs,
                                        db_matches, db_inserted, fault, store_fault) } :
               /\ index' = out.index
               /\ candidates' = out.candidates
               /\ db_matches' = out.stored
               /\ db_inserted' = out.inserted
               /\ rq' = [NoRequest EXCEPT
                            !.op = "match_candidates", !.status = out.status,
                            !.job_id = job_id, !.held = candidates,
                            !.listed = out.listed, !.searched = out.searched,
                            !.created = out.created, !.after = out.after,
                            !.response = out.response]
    /\ UNCHANGED << disk, everBuilt, last, hashSeed, probesButSvc, db_cvs, db_jobs, delivered >>

\* the client takes the response
take_response ==
    /\ ~NoPending
    /\ rq' = NoRequest
    /\ UNCHANGED << matcherVars, hashSeed, probesButSvc, db_cvs, db_matches, db_jobs,
                    db_inserted, delivered >>

\* cv_data.contact_info.email of a record of cv_metadata; << >> for none
EmailOf(candidate) == candidate.email

\* get_unsent_matches: the matches whose notification_sent is not True
GetUnsentMatches(stored) == SelectSeq(stored, LAMBDA m : ~m.notification_sent)

\* mark_notification_sent for the matches of marked
MarkSent(stored, marked) ==
    [ i \in 1..Len(stored) |->
        IF stored[i].id \in marked THEN [stored[i] EXCEPT !.notification_sent = TRUE]
        ELSE stored[i] ]

\* the candidate_ids of a request: {} for none given, or one candidate
CandidateIdFilters(cvs) == { {} } \cup { { id } : id \in IdsOf(cvs) }

\* send_notifications_manual(request) (lines 306-380): the status of the
\* response, the matches a notification was prepared for, those whose
\* e-mail was sent, those marked, and the matches collection.  refused are
\* the matches whose e-mail the SMTP server does not take.
SendNotifications(job_id, candidate_ids, jobs, cvs, stored, config_ok, refused) ==
    LET matches == SortDesc(SelectSeq(stored, LAMBDA m : m.job_id = job_id))
        chosen == IF candidate_ids # {}
                  THEN SelectSeq(matches, LAMBDA m : m.candidate_id \in candidate_ids)
                  ELSE matches
        \* a notification is prepared for a match whose candidate is in
        \* cv_metadata and has an e-mail address
        notifications_to_send ==
            SelectSeq(chosen, LAMBDA m :
                \E i \in 1..Len(cvs) : cvs[i].id = m.candidate_id /\ EmailOf(cvs[i]) # << >>)
        notified == { notifications_to_send[i].id : i \in 1..Len(notifications_to_send) }
        nothing == [status |-> "ok", notified |-> {}, sent |-> {}, marked |-> {},
                    stored |-> stored]
    IN  IF Found(jobs, job_id) = << >> \/ matches = << >>
        THEN [nothing EXCEPT !.status = "not_found"]
        ELSE IF notifications_to_send = << >>
        THEN [nothing EXCEPT !.status = "nothing_to_send"]
        ELSE IF ~config_ok
        THEN [nothing EXCEPT !.status = "error"]
        ELSE [status |-> "ok", notified |-> notified, sent |-> notified \ refused,
              marked |-> notified, stored |-> MarkSent(stored, notified)]

\* POST /send-notifications
send_notifications ==
    /\ NoPending
    /\ \E job_id \in RequestIds(db_inserted), candidate_ids \in CandidateIdFilters(db_cvs),
          config_ok \in BOOLEAN, refused \in SUBSET IdsOf(db_matches) :
           \E out \in { SendNotifications(job_id, candidate_ids, db_jobs, db_cvs, db_matches,
                                          config_ok, refused) } :
               /\ db_matches' = out.stored
               /\ delivered' = delivered \cup out.sent
               /\ rq' = [NoRequest EXCEPT
                            !.op = "send_notifications", !.status = out.status,
                            !.job_id = job_id, !.notified = out.notified,
                            !.sent = out.sent, !.marked = out.marked]
    /\ UNCHANGED << matcherVars, hashSeed, probesButSvc, db_cvs, db_jobs, db_inserted >>

NextService ==
    \/ upload_cv
    \/ delete_candidate
    \/ create_job_posting
    \/ update_match_parameters
    \/ delete_job_posting
    \/ match_candidates
    \/ send_notifications
    \/ take_response

SpecService == Init /\ [][NextService]_vars

-----------------------------------------------------------------------------
(* Properties                                                              *)

BuildOps == { "create_index", "update_candidate", "remove_candidate" }

QueryOps == { "find_matches", "batch_search" }

\* the index idx holds one vector per candidate of cands, the vector at
\* each position being the embedding of the text of the candidate there
Aligned(idx, cands) ==
    /\ Len(idx.vecs) = Len(cands)
    /\ \A i \in 1..Len(cands) :
          /\ ~TextRaises(cands[i])
          /\ idx.vecs[i] = Embed(CandidateText(cands[i]))

\* the matcher holds the index of a completed build of its candidate list
HoldsBuiltIndex ==
    /\ index.kind = "flat"
    /\ candidates # << >>
    /\ Aligned(index, candidates)

IsBlank(text) == Strip(text) = << >>

SortedDescending(results) ==
    \A i \in 1..(Len(results) - 1) :
        results[i].match_percentage >= results[i + 1].match_percentage

\* C1: whenever the matcher holds an index, the index has as many vectors as
\* the stored candidate list has entries, and the vector at position i is
\* the embedding of the text of the stored candidate at position i.
C1_PositionalAlignment == index.kind = "flat" => Aligned(index, candidates)

\* C2: a build that fails after a successful build (create_index, directly
\* or through update_candidate or remove_candidate) leaves the index and the
\* candidate list as they were, and every find_matches answers as before.
C2_RebuildAllOrNothing ==
    [][ ( /\ HoldsBuiltIndex
          /\ last'.op \in BuildOps
          /\ last'.err # "ok" )
        => ( /\ index' = index
             /\ candidates' = candidates
             /\ \A q \in Queries, k \in KValues, m \in MinScores :
                   FindMatches(index', candidates', hashSeed, q, k, m)
                       = FindMatches(index, candidates, hashSeed, q, k, m) ) ]_vars

\* C3: on the index built from the stored candidate list, find_matches with
\* k = 1 and the text of candidate i as the query returns candidate i first,
\* with distance 0 and match percentage 100.
C3_Identity ==
    ( /\ last.op = "find_matches"
      /\ last.k = 1
      /\ HoldsBuiltIndex )
    => \A i \in 1..Len(candidates) :
          last.query = CandidateText(candidates[i])
          => /\ last.err = "ok"
             /\ last.results # << >>
             /\ last.results[1].candidate_id = candidates[i].id
             /\ last.results[1].distance = 0
             /\ last.results[1].match_percentage = 100 * 100

\* C4: create_index with an empty candidate list fails with the empty-corpus
\* error and leaves the index and the stored candidate list as they were.
C4_EmptyCorpusRejected ==
    [][ ( last'.op = "create_index" /\ last'.cands = << >> )
        => ( /\ last'.err = "EmptyCorpus"
             /\ index' = index
             /\ candidates' = candidates ) ]_vars

\* an empty list was refused while the matcher held a built index
C4_Witness ==
    /\ last.op = "create_index"
    /\ last.cands = << >>
    /\ last.err = "EmptyCorpus"
    /\ HoldsBuiltIndex

\* C5: on a built index, find_matches with a blank job text or with k <= 0
\* fails with the invalid-query error and returns nothing.
C5_InvalidQueryRejected ==
    ( /\ last.op = "find_matches"
      /\ HoldsBuiltIndex
      /\ (IsBlank(last.query) \/ last.k <= 0) )
    => ( last.err = "InvalidQuery" /\ last.results = << >> )

\* C6: while no create_index has completed since construction or since
\* remove_candidate removed the last candidate, find_matches and
\* batch_search fail with the index-not-built error; stated for the calls
\* whose arguments are valid (a job text of 3 characters or more, k >= 1),
\* which no other check can fail first.
C6_IndexNotBuilt ==
    ( /\ ~everBuilt
      /\ last.op \in QueryOps
      /\ last.k >= 1
      /\ (last.op = "find_matches" => Len(Strip(last.query)) >= 3) )
    => last.err = "IndexNotBuilt"

\* C7 as claimed: the list find_matches returns is in descending order of
\* match_percentage and no returned match_percentage is below min_score.
C7_ReturnedNotBelowMinScore ==
    ( last.op = "find_matches" /\ last.err = "ok" )
    => /\ SortedDescending(last.results)
       /\ \A i \in 1..Len(last.results) :
             10 * last.results[i].match_percentage >= last.min_score

\* C7 as amended: the list find_matches returns is in descending order of
\* match_percentage, the unrounded percentage 100/(1+distance) of every entry
\* is at least min_score, and the returned (rounded) match_percentage is
\* below min_score by at most 0.005.
C7_SortedAndFiltered ==
    ( last.op = "find_matches" /\ last.err = "ok" )
    => /\ SortedDescending(last.results)
       /\ \A i \in 1..Len(last.results) :
             /\ 100 * 1000 >= last.min_score * (1 + last.results[i].distance)
             /\ 10 * last.results[i].match_percentage + 5 >= last.min_score

\* a query with a positive min_score that dropped a hit and kept one whose
\* rounded percentage is below min_score
C7_Witness ==
    /\ last.op = "find_matches"
    /\ last.err = "ok"
    /\ last.min_score > 0
    /\ HoldsBuiltIndex
    /\ last.results # << >>
    /\ Len(last.results) < Min(last.k, Len(index.vecs))
    /\ \E i \in 1..Len(last.results) :
          10 * last.results[i].match_percentage < last.min_score

\* C8 as claimed: the score of a result is strictly decreasing in the
\* distance, is 100 at distance 0 and lies in [0, 100].
C8_ScoreStrictlyDecreasing ==
    sc_result.done
    => /\ \A e \in 0..MaxDistance :
             e < sc_distance => MatchPercentage(e) > sc_result.value
       /\ (sc_distance = 0 => sc_result.value = 100 * 100)
       /\ sc_result.value \in 0..(100 * 100)

\* C8 as amended: the score of a result is 100/(1+distance) rounded to two
\* decimals (within 0.005 of it); it never increases with the distance, is
\* 100 at distance 0 and lies in [0, 100].
C8_ScoreRoundedNonIncreasing ==
    sc_result.done
    => LET exact_gap == sc_result.value * (1 + sc_distance) - 100 * 100
       IN  /\ 2 * exact_gap <= 1 + sc_distance
           /\ 2 * (0 - exact_gap) <= 1 + sc_distance
           /\ \A e \in 0..MaxDistance :
                 e < sc_distance => MatchPercentage(e) >= sc_result.value
           /\ (sc_distance = 0 => sc_result.value = 100 * 100)
           /\ sc_result.value \in 0..(100 * 100)

\* a distance whose score equals the score of a smaller distance
C8_Witness ==
    /\ sc_result.done
    /\ sc_distance > 0
    /\ \E e \in 0..(sc_distance - 1) : MatchPercentage(e) = sc_result.value

\* C9: _find_missing_skills returns at most 5 entries, no entry twice, and
\* every entry is the title-cased form of a vocabulary term that occurs in
\* the lower-cased query and not in the lower-cased space-join of the skills.
C9_MissingSkillsSound ==
    sq_result.done
    => LET missing == sq_result.value
           joined == Join([ i \in 1..Len(sq_skills) |-> Lower(sq_skills[i]) ], << " " >>)
       IN  /\ Len(missing) <= 5
           /\ \A i, j \in 1..Len(missing) : i # j => missing[i] # missing[j]
           /\ \A i \in 1..Len(missing) :
                 \E t \in 1..Len(tech_keywords) :
                    /\ missing[i] = Title(tech_keywords[t])
                    /\ Contains(tech_keywords[t], Lower(sq_query))
                    /\ ~Contains(tech_keywords[t], joined)

\* more than 5 terms qualified, one term of the query was excused by the
\* skills, and 5 entries were returned
C9_Witness ==
    /\ sq_result.done
    /\ Len(sq_result.value) = 5
    /\ Cardinality(QualifyingTerms(sq_query, sq_skills)) > 5
    /\ Cardinality(QualifyingTerms(sq_query, << >>))
          > Cardinality(QualifyingTerms(sq_query, sq_skills))

\* the qualifying terms of S in vocabulary order
RECURSIVE InVocabularyOrder(_, _)
InVocabularyOrder(S, t) ==
    IF t > Len(tech_keywords) THEN << >>
    ELSE (IF t \in S THEN << Title(tech_keywords[t]) >> ELSE << >>)
         \o InVocabularyOrder(S, t + 1)

\* C10: the missing-skill list is the same for every run and is in
\* vocabulary order: it is the first 5 qualifying terms of the vocabulary.
C10_VocabularyOrder ==
    sq_result.done
    => sq_result.value
          = Prefix(InVocabularyOrder(QualifyingTerms(sq_query, sq_skills), 1), 5)

\* C11: the text create_index embeds for a candidate is the summary as it
\* is (not trimmed, not changed) when the summary is a str whose trimmed
\* length is 10 or more, and the result of _create_fallback_text when the
\* summary is absent, None, empty or a str of a shorter trimmed length;
\* the short summary is never the text.
C11_TextSelection ==
    nz_text.done
    => LET summary == nz_candidate.summary
       IN  /\ ( summary.tag = "str" /\ Len(Strip(summary.s)) >= 10 )
                => ( nz_text.err = "ok" /\ nz_text.value = summary.s )
           /\ ( summary.tag = "none" \/ (summary.tag = "str" /\ Len(Strip(summary.s)) < 10) )
                => ( /\ nz_text.err = "ok"
                     /\ nz_text.value = CreateFallbackText(nz_candidate)
                     /\ nz_text.value # summary.s
                     /\ nz_text.value # Strip(summary.s) )

\* a summary padded with whitespace, of trimmed length 10 or more, was
\* taken as it is
C11_Witness ==
    /\ nz_text.done
    /\ nz_candidate.summary.tag = "str"
    /\ Strip(nz_candidate.summary.s) # nz_candidate.summary.s
    /\ Len(Strip(nz_candidate.summary.s)) >= 10
    /\ nz_text.value = nz_candidate.summary.s

\* the parts of text between the occurrences of sep
RECURSIVE SplitOn(_, _)
SplitOn(text, sep) ==
    LET at == { i \in 1..(Len(text) - Len(sep) + 1) : SubSeq(text, i, i + Len(sep) - 1) = sep }
        first == CHOOSE i \in at : \A j \in at : i <= j
    IN  IF at = {} THEN << text >>
        ELSE << SubSeq(text, 1, first - 1) >>
                \o SplitOn(SubSeq(text, first + Len(sep), Len(text)), sep)

\* the values of the two fields of the first n entries, entry by entry,
\* those that are not empty
FieldValues(entries, n, first_field, second_field) ==
    LET m == Min(n, Len(entries))
        both == [ j \in 1..(2 * m) |->
                    IF j % 2 = 1 THEN entries[(j + 1) \div 2][first_field]
                    ELSE entries[j \div 2][second_field] ]
    IN  SelectSeq(both, LAMBDA v : v # << >>)

HasLabel(text, label) == Len(text) >= Len(label) /\ SubSeq(text, 1, Len(label)) = label

AfterLabel(text, label) == SubSeq(text, Len(label) + 1, Len(text))

NameLabel == <<"A", "d", ":", " ">>

SkillsLabel == <<"B", "e", "c", "e", "r", "i", "l", "e", "r", ":", " ">>

ExperienceLabel == <<"D", "e", "n", "e", "y", "i", "m", ":", " ">>

EducationLabel == <<"E", "U+011F", "i", "t", "i", "m", ":", " ">>

NoDetailText == <<"D", "e", "t", "a", "y", " ", "b", "i", "l", "g", "i", " ", "b", "u", "l", "u", "n", "a", "m", "a", "d", "U+0131">>

\* C12: for a candidate record whose fields are well formed,
\* _create_fallback_text returns the clauses that have data, in the order
\* name, skills, experience, education, separated by "; ": the name clause
\* holds the first name only, the skills clause the first 10 skills, the
\* experience clause the position and company values of the first 3
\* entries, the education clause the institution and degree_type values of
\* the first 2 entries; with no clause it returns the placeholder.  A
\* candidate with no summary and at most 10 skills has every skill in the
\* text that is embedded for it.
C12_FallbackShape ==
    LET c == nz_candidate
        exp_values == FieldValues(c.experience, 3, "position", "company")
        edu_values == FieldValues(c.education, 2, "institution", "degree_type")
        present == << c.names # << >>, c.skills # << >>, exp_values # << >>, edu_values # << >> >>
        labels == << NameLabel, SkillsLabel, ExperienceLabel, EducationLabel >>
        values == << IF c.names # << >> THEN << c.names[1] >> ELSE << >>,
                     SubSeq(c.skills, 1, Min(10, Len(c.skills))),
                     exp_values, edu_values >>
        which == SelectSeq(<< 1, 2, 3, 4 >>, LAMBDA n : present[n])
        clauses == SplitOn(nz_fallback.value, << ";", " " >>)
    IN  /\ ( nz_fallback.done /\ ~FallbackRaises(c) )
             => IF which = << >> THEN nz_fallback.value = NoDetailText
                ELSE /\ Len(clauses) = Len(which)
                     /\ \A n \in 1..Len(which) :
                           /\ HasLabel(clauses[n], labels[which[n]])
                           /\ IF which[n] = 1
                              THEN AfterLabel(clauses[n], NameLabel) = c.names[1]
                              ELSE SplitOn(AfterLabel(clauses[n], labels[which[n]]), << ",", " " >>)
                                      = values[which[n]]
        /\ ( /\ nz_text.done
             /\ ~FallbackRaises(c)
             /\ c.summary.tag = "none"
             /\ Len(c.skills) <= 10 )
             => \A n \in 1..Len(c.skills) : Contains(c.skills[n], nz_text.value)

\* the fallback text of a candidate with 2 names, more than 10 skills, more
\* than 3 experience entries and more than 2 education entries
C12_Witness ==
    /\ nz_fallback.done
    /\ ~FallbackRaises(nz_candidate)
    /\ Len(nz_candidate.names) > 1
    /\ Len(nz_candidate.skills) > 10
    /\ Len(nz_candidate.experience) > 3
    /\ Len(nz_candidate.education) > 2
    /\ Len(SplitOn(nz_fallback.value, << ";", " " >>)) = 4

\* C13: the normaliser never raises, and when reading one field of the
\* candidate fails, the text still holds the clauses of the other fields:
\* the name clause when there is a name, the skills clause when there are
\* skills.
C13_DegradesPerClause ==
    LET c == nz_candidate
    IN  /\ nz_text.done => nz_text.err = "ok"
        /\ ( nz_fallback.done /\ c.cv_kind = "dict" )
             => /\ c.names # << >>
                     => Contains(NameLabel \o c.names[1], nz_fallback.value)
                /\ c.skills # << >>
                     => Contains(SkillsLabel \o Join(SubSeq(c.skills, 1, Min(10, Len(c.skills))),
                                                      << ",", " " >>),
                                 nz_fallback.value)

AllFinite(vector) == \A j \in 1..Len(vector) : IsFinite(vector[j])

ZeroVector(vector) == [ j \in 1..Len(vector) |-> Num(0) ]

\* C14: every vector create_index adds to the index and every vector
\* find_matches searches with has finite components only, whatever the
\* model returned, and is the all-zero vector when the vector the model
\* returned had a component that is not finite.
C14_NoNonFinite ==
    /\ sn_added.done
         => \A i \in 1..Len(sn_raw) :
               /\ AllFinite(sn_added.value[i])
               /\ ~AllFinite(sn_raw[i]) => sn_added.value[i] = ZeroVector(sn_raw[i])
    /\ sn_searched.done
         => /\ AllFinite(sn_searched.value)
            /\ ~AllFinite(sn_raw[1]) => sn_searched.value = ZeroVector(sn_raw[1])

\* C18: for a candidate record whose fields are well formed,
\* _generate_explanation returns clauses separated by " | ": first the
\* label of the tier of match_percentage (>= 80, >= 60, >= 40, otherwise the
\* lowest), then the first name, the first 3 skills, the positions of the
\* first 2 experience entries and the first 3 missing skills, each only
\* when there is data for it.
C18_ExplanationShape ==
    LET c == ex_candidate
        positions == SelectSeq([ i \in 1..Min(2, Len(c.experience)) |-> c.experience[i].position ],
                               LAMBDA v : v # << >>)
        values == << IF c.names # << >> THEN << c.names[1] >> ELSE << >>,
                     SubSeq(c.skills, 1, Min(3, Len(c.skills))),
                     positions,
                     SubSeq(ex_missing, 1, Min(3, Len(ex_missing))) >>
        labels == << <<"A", "d", "a", "y", ":", " ">>,
                     <<"A", "n", "a", " ", "b", "e", "c", "e", "r", "i", "l", "e", "r", ":", " ">>,
                     <<"S", "o", "n", " ", "p", "o", "z", "i", "s", "y", "o", "n", "l", "a", "r", ":", " ">>,
                     <<"G", "e", "l", "i", "U+015F", "t", "i", "r", "i", "l", "e", "b", "i", "l", "i", "r", " ", "a", "l", "a", "n", "l", "a", "r", ":", " ">> >>
        tier == CASE ex_pct >= 80000 -> <<"U+00C7", "o", "k", " ", "y", "U+00FC", "k", "s", "e", "k", " ", "u", "y", "u", "m", "l", "u", "l", "u", "k">>
                  [] ex_pct >= 60000 /\ ex_pct < 80000 -> <<"Y", "U+00FC", "k", "s", "e", "k", " ", "u", "y", "u", "m", "l", "u", "l", "u", "k">>
                  [] ex_pct >= 40000 /\ ex_pct < 60000 -> <<"O", "r", "t", "a", " ", "s", "e", "v", "i", "y", "e", " ", "u", "y", "u", "m", "l", "u", "l", "u", "k">>
                  [] ex_pct < 40000 -> <<"D", "U+00FC", "U+015F", "U+00FC", "k", " ", "u", "y", "u", "m", "l", "u", "l", "u", "k">>
        which == SelectSeq(<< 1, 2, 3, 4 >>, LAMBDA n : values[n] # << >>)
        clauses == SplitOn(ex_result.value, << " ", "|", " " >>)
    IN  ( ex_result.done /\ ~ExplanationRaises(c) )
        => /\ Len(clauses) = 1 + Len(which)
           /\ clauses[1] = tier
           /\ \A n \in 1..Len(which) :
                 /\ HasLabel(clauses[n + 1], labels[which[n]])
                 /\ SplitOn(AfterLabel(clauses[n + 1], labels[which[n]]), << ",", " " >>)
                        = values[which[n]]

\* an explanation of five clauses for a match percentage at a threshold,
\* more than 3 skills, more than 2 experience entries and more than 3
\* missing skills
C18_Witness ==
    /\ ex_result.done
    /\ ~ExplanationRaises(ex_candidate)
    /\ ex_pct \in { 40000, 60000, 80000 }
    /\ Len(ex_candidate.skills) > 3
    /\ Len(ex_candidate.experience) > 2
    /\ Len(ex_missing) > 3
    /\ Len(SplitOn(ex_result.value, << " ", "|", " " >>)) = 5

\* the first candidate of cands with the id
CandidateOf(cands, candidate_id) ==
    cands[CHOOSE i \in 1..Len(cands) :
            cands[i].id = candidate_id /\ \A j \in 1..(i - 1) : cands[j].id # candidate_id]

\* C19: a malformed field of a candidate record never fails the query:
\* find_matches with a valid job text, k >= 1 and no min_score on a built
\* index returns a result for every candidate it reaches, and the
\* explanation of a result starts with the label of the tier of its match
\* percentage and holds the name clause and the skills clause of a candidate
\* that has a name and skills.
C19_ExplanationDegrades ==
    ( /\ last.op = "find_matches"
      /\ HoldsBuiltIndex
      /\ Len(Strip(last.query)) >= 3
      /\ last.k >= 1
      /\ last.min_score = 0 )
    => /\ last.err = "ok"
       /\ Len(last.results) = Min(last.k, Len(candidates))
       /\ \A i \in 1..Len(last.results) :
             LET r == last.results[i]
                 c == CandidateOf(candidates, r.candidate_id)
                 clauses == SplitOn(r.explanation, << " ", "|", " " >>)
             IN  /\ clauses[1] = TierLabel(100, 1 + r.distance)
                 /\ ( c.cv_kind = "dict" /\ c.names # << >> )
                      => \E n \in 1..Len(clauses) : clauses[n] = <<"A", "d", "a", "y", ":", " ">> \o c.names[1]
                 /\ ( c.cv_kind = "dict" /\ c.skills # << >> )
                      => \E n \in 1..Len(clauses) :
                            clauses[n] = <<"A", "n", "a", " ", "b", "e", "c", "e", "r", "i", "l", "e", "r", ":", " ">>
                                \o Join(SubSeq(c.skills, 1, Min(3, Len(c.skills))), << ",", " " >>)

\* C20: on the index built from the n stored candidates, find_matches with
\* a valid job text and k >= 1 returns at most min(k, n) results, each for
\* another position of the candidate list, in ascending order of distance;
\* with min_score = 0 it returns min(k, n) results, and no candidate that
\* is left out is nearer to the query than one that is returned.
C20_NearestResults ==
    ( /\ last.op = "find_matches"
      /\ HoldsBuiltIndex
      /\ last.k >= 1
      /\ Len(Strip(last.query)) >= 3
      /\ \A p \in 1..Len(candidates) : candidates[p].cv_kind = "dict" )
    => LET n == Len(candidates)
           m == Len(last.results)
           qv == Embed(CleanQuery(last.query))
           dist == [ p \in 1..n |-> L2Sqr(index.vecs[p], qv) ]
       IN  /\ last.err = "ok"
           /\ m <= Min(last.k, n)
           /\ last.min_score = 0 => m = Min(last.k, n)
           /\ \E pos \in [ 1..m -> 1..n ] :
                 /\ \A i, j \in 1..m : i # j => pos[i] # pos[j]
                 /\ \A i \in 1..m :
                       /\ last.results[i].candidate_id = candidates[pos[i]].id
                       /\ last.results[i].distance = dist[pos[i]]
                 /\ \A i \in 1..(m - 1) :
                       last.results[i].distance <= last.results[i + 1].distance
                 /\ last.min_score = 0
                      => \A p \in 1..n :
                            (\A i \in 1..m : pos[i] # p)
                            => \A i \in 1..m : dist[pos[i]] <= dist[p]

\* k = 1 on an index of 2 candidates: the one result is the second
\* candidate of the list, which is nearer to the query than the first
C20_Witness ==
    /\ last.op = "find_matches"
    /\ last.err = "ok"
    /\ HoldsBuiltIndex
    /\ Len(candidates) = 2
    /\ last.k = 1
    /\ last.min_score = 0
    /\ Len(last.results) = 1
    /\ candidates[1].id # candidates[2].id
    /\ last.results[1].candidate_id = candidates[2].id
    /\ L2Sqr(index.vecs[2], Embed(CleanQuery(last.query)))
          < L2Sqr(index.vecs[1], Embed(CleanQuery(last.query)))

\* C17: create_index called again with the candidate list of the build
\* the matcher holds changes no answer: after the second build find_matches
\* returns, for every job text, k and min_score, the sequence (ids, scores,
\* missing skills, explanations, order) it returned after the first.
C17_RebuildIdempotent ==
    [][ ( /\ last'.op = "create_index"
          /\ last'.err = "ok"
          /\ last'.repeated )
        => \A q \in Queries, k \in KValues, m \in MinScores :
              FindMatches(index', candidates', hashSeed', q, k, m)
                  = FindMatches(index, candidates, hashSeed, q, k, m) ]_vars

\* a list of two candidates was built a second time
C17_Witness ==
    /\ last.op = "create_index"
    /\ last.err = "ok"
    /\ last.repeated
    /\ Len(candidates) = 2
    /\ candidates[1].id # candidates[2].id

\* the candidate and the distance of each result, in their order
Hits(results) ==
    [ i \in 1..Len(results) |-> << results[i].candidate_id, results[i].distance >> ]

\* C16: when an index was saved and the file was loaded, find_matches on
\* the loaded index returns the candidates and distances, in the order, it
\* returns on the index that was saved; stated for the second matcher, which
\* has loaded the file of the index the first matcher has built and still
\* holds.
C16_RoundTrip ==
    ( /\ last.op = "other_find_matches"
      /\ HoldsBuiltIndex
      /\ disk.present
      /\ disk.vecs = index.vecs
      /\ other.index = FlatIndex(disk.vecs) )
    => LET original == FindMatches(index, candidates, hashSeed,
                                   last.query, last.k, last.min_score)
       IN  /\ last.err = original.err
           /\ Hits(last.results) = Hits(original.results)

\* C15: with create_index and find_matches running at the same time on one
\* matcher, no find_matches reads the index or the candidate list while a
\* create_index is in progress; so none searches an index that is empty or
\* not filled, and none reads a candidate list other than the one the index
\* it searched was built from.
C15_BuildExcludesQuery ==
    /\ ~qt.overlap
    /\ ~qt.saw_unfilled
    /\ ~qt.saw_other_list

\* C21: a call of VectorMatcher() that cannot load the model raises an error
\* and returns no object, so there is no matcher without a model and no
\* method is ever called on one; the constructor asks for the model once.
C21_ConstructFailsFast ==
    /\ made.object => made.model
    /\ made.called => (made.err # "ok" <=> ~made.object)
    /\ made.called => made.loads = 1
    /\ ~made.object => (index = NoIndex /\ candidates = << >> /\ last = NoCall)

\* a construction has failed on the model
C21_Witness == made.called /\ made.err = "ModelLoadFailed" /\ ~made.object

\* C24: a job text find_matches does not reject gives, after _clean_query, a
\* text that is not empty (and not made of white space only): the text
\* handed to the embedding model for a query is never empty.
C24_EncodedQueryNotEmpty ==
    (cq_result.done /\ ~cq_result.rejected) =>
        /\ cq_result.text # << >>
        /\ Strip(cq_result.text) # << >>

\* The percentage 100/(1+distance) of a is above that of b, compared as
\* fractions, without rounding.
ExactlyAbove(a, b) == 100 * (1 + b.distance) > 100 * (1 + a.distance)

\* A stable sort of the hits in descending order of the unrounded
\* percentage.
RECURSIVE SortByExact(_)
SortByExact(hits) ==
    IF hits = << >> THEN << >>
    ELSE LET h == hits[Len(hits)]
             rest == SortByExact(SubSeq(hits, 1, Len(hits) - 1))
         IN  SelectSeq(rest, LAMBDA x : ~ExactlyAbove(h, x))
                \o << h >>
                \o SelectSeq(rest, LAMBDA x : ExactlyAbove(h, x))

\* The hits the loop keeps: those at or above min_score.
Surviving(hits, min_score) ==
    SelectSeq(hits, LAMBDA h : ~BelowMinScore(h.distance, min_score))

\* C23: the results find_matches returns are in the order of a stable sort
\* of the surviving hits by descending unrounded percentage: results whose
\* two-decimal percentages are equal stay in the order of the index,
\* nearest first.
C23_RankingExactAndStable ==
    rk_result.done =>
        LET expected == SortByExact(Surviving(rk_hits, rk_min_score))
        IN  /\ Len(rk_result.value) = Len(expected)
            /\ \A i \in 1..Len(expected) :
                   /\ rk_result.value[i].distance = expected[i].distance
                   /\ rk_result.value[i].candidate_id
                         = RankCandidates[expected[i].idx + 1].id

\* two results of one call with the same two-decimal percentage and
\* different distances
C23_Witness ==
    /\ rk_result.done
    /\ \E i, j \in 1..Len(rk_result.value) :
           /\ i < j
           /\ rk_result.value[i].match_percentage = rk_result.value[j].match_percentage
           /\ rk_result.value[i].distance < rk_result.value[j].distance

\* C25: every vocabulary term that occurs in the query and not in the joined
\* skills is in the returned list, title-cased, when at most 5 terms
\* qualify; when more than 5 qualify, the first of them in vocabulary order
\* is in the returned list.
C25_GapAnalysisComplete ==
    sq_result.done
    => LET qualifying == QualifyingTerms(sq_query, sq_skills)
           returned == Range(sq_result.value)
           first == CHOOSE t \in qualifying : \A u \in qualifying : t <= u
       IN  /\ Cardinality(qualifying) <= 5
                => \A t \in qualifying : Title(tech_keywords[t]) \in returned
           /\ Cardinality(qualifying) > 5
                => Title(tech_keywords[first]) \in returned

\* the candidates of cands whose id is not candidate_id, in their order
RECURSIVE Without(_, _)
Without(cands, candidate_id) ==
    IF cands = << >> THEN << >>
    ELSE (IF cands[1].id = candidate_id THEN << >> ELSE << cands[1] >>)
         \o Without(Tail(cands), candidate_id)

\* a call of remove_candidate returns
RemoveReturns == last.op = "none" /\ last'.op = "remove_candidate"

\* C28: remove_candidate(id) with an id that is stored, when it returns
\* without an error, has removed every stored candidate with the id and kept
\* the others in their order, and the index holds the vectors of exactly
\* the remaining candidates, in their order; when no candidate remains the
\* list is empty, there is no index, get_index_info reports no_index and 0
\* candidates, and find_matches fails with the index-not-built error.
C28_RemoveRebuilds ==
    [][ ( /\ RemoveReturns
          /\ last'.err = "ok"
          /\ \E i \in 1..Len(candidates) : candidates[i].id = last'.id )
        => /\ candidates' = Without(candidates, last'.id)
           /\ candidates' # << >>
                => /\ index'.kind = "flat"
                   /\ Len(index'.vecs) = Len(candidates')
                   /\ \A i \in 1..Len(candidates') :
                          index'.vecs[i] = Embed(CandidateText(candidates'[i]))
           /\ candidates' = << >>
                => /\ index' = NoIndex
                   /\ GetIndexInfo(index') = [status |-> "no_index", total_candidates |-> 0]
                   /\ \A q \in Queries, k \in KValues, m \in MinScores :
                          FindMatches(index', candidates', hashSeed', q, k, m).err
                              = "IndexNotBuilt" ]_vars

\* one candidate was removed from a list of three, and two candidates that
\* differ remain, with an index of their two vectors
C28_Witness ==
    /\ last.op = "remove_candidate"
    /\ last.err = "ok"
    /\ last.removed = 1
    /\ Len(candidates) = 2
    /\ candidates[1] # candidates[2]
    /\ index = FlatIndex(BuildVectors(candidates))
    /\ index.vecs[1] # index.vecs[2]

\* C29: remove_candidate with an id no stored candidate has leaves the
\* index and the candidate list as they were and raises no error, also
\* when a rebuild would fail.
C29_RemoveAbsentNoEffect ==
    [][ ( /\ RemoveReturns
          /\ \A i \in 1..Len(candidates) : candidates[i].id # last'.id )
        => /\ index' = index
           /\ candidates' = candidates
           /\ last'.err = "ok"
           /\ last'.removed = 0 ]_vars

\* an id that is not stored was removed from a matcher holding an index
\* and candidates
C29_Witness ==
    /\ last.op = "remove_candidate"
    /\ last.removed = 0
    /\ last.err = "ok"
    /\ index.kind = "flat"
    /\ Len(index.vecs) = 2
    /\ Len(candidates) = 2

\* a call of find_matches or of batch_search returns
QueryReturns == last.op = "none" /\ last'.op \in { "find_matches", "batch_search" }

\* C30: find_matches and batch_search, failing or not, leave the index and
\* the stored candidate list as they were, so the same call made again at
\* once returns the same.
C30_QueriesReadOnly ==
    [][ QueryReturns
        => /\ index' = index
           /\ candidates' = candidates
           /\ last'.op = "find_matches"
                => LET again == FindMatches(index', candidates', hashSeed',
                                            last'.query, last'.k, last'.min_score)
                   IN  again.err = last'.err /\ again.results = last'.results
           /\ last'.op = "batch_search"
                => LET again == BatchSearch(index', candidates', hashSeed',
                                            last'.queries, last'.k)
                   IN  again.err = last'.err /\ again.results = last'.results ]_vars

\* a query returned two candidates of a list of two different candidates
C30_Witness ==
    /\ last.op = "find_matches"
    /\ last.err = "ok"
    /\ Len(last.results) = 2
    /\ Len(candidates) = 2
    /\ candidates[1] # candidates[2]

\* C22: in every match_candidates request that reaches find_matches, the
\* index find_matches searches holds the vectors of exactly the candidates
\* the request read from the database, in their order, and the stored list
\* is that list: whatever the matcher held from earlier requests, no query
\* is answered from an index built for other candidates.
C22_IndexOfThisRequest ==
    (rq.op = "match_candidates" /\ rq.searched.called) =>
        /\ rq.listed = [ i \in 1..Len(db_cvs) |-> Prepare(db_cvs[i]) ]
        /\ rq.searched.candidates = rq.listed
        /\ rq.searched.index.kind = "flat"
        /\ Len(rq.searched.index.vecs) = Len(rq.listed)
        /\ \A i \in 1..Len(rq.listed) :
               rq.searched.index.vecs[i] = Embed(CandidateText(rq.listed[i]))

\* a request was answered on a matcher that held the index of another
\* candidate list
C22_Witness ==
    /\ rq.op = "match_candidates"
    /\ rq.searched.called
    /\ rq.status = "ok"
    /\ rq.response # << >>
    /\ rq.held # << >>
    /\ rq.held # rq.listed

\* C26: a result find_matches returned is not changed afterwards: after
\* match_candidates has stored the results, each has the fields and the
\* values find_matches gave it.
C26_ResultsNotMutated ==
    (rq.op = "match_candidates" /\ rq.status = "ok") =>
        /\ Len(rq.after) = Len(rq.created)
        /\ \A i \in 1..Len(rq.created) :
               /\ DOMAIN rq.after[i] = DOMAIN rq.created[i]
               /\ \A f \in DOMAIN rq.created[i] : rq.after[i][f] = rq.created[i][f]

\* C27: a match is marked notification_sent only if its e-mail was sent: a
\* match whose send failed is not marked and stays among the matches
\* get_unsent_matches returns.
C27_MarkedOnlyIfSent ==
    /\ \A i \in 1..Len(db_matches) :
           db_matches[i].notification_sent => db_matches[i].id \in delivered
    /\ rq.op = "send_notifications"
          => \A id \in rq.notified \ rq.sent :
                \E i \in 1..Len(GetUnsentMatches(db_matches)) :
                    GetUnsentMatches(db_matches)[i].id = id

====
